---------------------------- MODULE Spec2Model ----------------------------
(***************************************************************************)
(* Verification model of the Pokemon card price checker pipeline:          *)
(*   - the eBay OAuth credential cache        (ingestion/ebay/ebay_auth)   *)
(*   - the eBay acquisition run               (ingestion/ebay/ebay_ingest) *)
(*   - the listing classifier                 (processing/ebay_staging)    *)
(*   - the fact-build steps and their store   (processing, analytics)     *)
(*   - the catalog ingestion and its backfill (ingestion/pokemon_tcg)      *)
(*   - the title normalizers, the non-card filter and the eBay staging     *)
(*     run                                    (processing/ebay)            *)
(*   - the surrogate key generator            (processing/card_price)      *)
(* Each component has its own specification over the shared variables; a   *)
(* specification leaves the other components' variables at their idle      *)
(* values.                                                                 *)
(***************************************************************************)
EXTENDS Integers, Sequences, FiniteSets, TLC

VARIABLES
    \* ---- credential cache (EbayAuthClient) and wall clock
    token,            \* self._token: [present, expires_at]
    now,              \* time.time(), in seconds
    lastCall,         \* history: what the last get_access_token call saw and did
    \* ---- acquisition run (ebay_ingest.main / fetch_all_items_for_query)
    cfg,              \* IngestConfig in use: page_size, max_results, max_pages
    runPc,            \* position of main(): "loop", "page", "return", "complete"
    cardIdx,          \* index of the row of enriched_df being processed
    passed,           \* main(): passed
    failed,           \* main(): failed
    raw,              \* raw JSON files written by this run, per card
    all_items,        \* fetch_all_items_for_query: all_items
    merged_payload,   \* fetch_all_items_for_query: merged_payload (its envelope)
    offset,           \* fetch_all_items_for_query: offset
    pages,            \* fetch_all_items_for_query: pages
    callLog,          \* history: search_items calls made for the current card
    overReturned,     \* history: the server returned more items than the limit
    authFailedAt,     \* history: card index at which EbayAuthError was first raised
    \* ---- listing classifier (ebay_staging_transform)
    classified,       \* history: the classifications made, signals and tier
    \* ---- TCG fact build (tcg_staging, variant master, price history)
    today,            \* the date of the running process (SNAPSHOT_PRICE_DATE)
    schemas,          \* the schema contracts loaded from the YAML files
    staging_cards,    \* data/staging/pokemon_tcg/cards: its parquet files
    staging_prices,   \* data/staging/pokemon_tcg/card_prices: its parquet files
    variant_master,   \* data/processed/card_price_variant_master: its files
    price_history,    \* data/processed/tcg_price_history: files per price_date
    stagingRuns,      \* number of tcg staging runs made
    factRuns,         \* number of variant-master and price-history runs made
    lastRun,          \* history: the last build step, its frame and outcome
    \* ---- eBay market snapshot (ebay_card_market_snapshot_transform)
    ebay_staging,     \* data/staging/ebay/listings: part-000 per price_date, ingestion_date
    snapshot,         \* data/analytics/ebay_market_snapshot: part-000 per ingestion_date
    ebayStagingRuns,  \* number of eBay staging runs made
    snapshotRuns,     \* number of snapshot runs made
    \* ---- catalog ingestion and backfill (pokemon_tcg_ingestion, pokemon_tcg_backfill)
    catPc,            \* which script runs and where it is
    page,             \* the page the script requests next
    attempts,         \* the for loop's counter of the current page
    failed_pages,     \* ingestion: pages given up; backfill: the pages read from the ledger
    updated_failed_pages, \* backfill: pages that failed again
    page_idx,         \* backfill: position in failed_pages
    all_cards,        \* the pages whose cards were collected by the running script
    ledger,           \* data/meta/<date>_failed.json
    fail_persisted,   \* data/meta/<date>_fail_persisted.json
    backfillRuns,     \* number of backfill runs started
    pageLog,          \* history: the requests made for the page requested last
    runPages,         \* history: the pages requested by the running script
    \* ---- eBay staging run over the listings of one card (ebay_staging_transform)
    listPc,           \* "run" while listings are transformed, then "done"
    listings,         \* itemSummaries of the card's raw file
    examined,         \* how many of them the loop has been through
    staging_rows,     \* rows: the accepted rows so far
    rejected_count,   \* the rejection tally
    staged_listings,  \* part-000.parquet of the run's output partition
    listTrace,        \* history: per listing, what transform_listing computed
    card_master_row,  \* the card_master row of the card whose raw file is staged
    \* ---- the normalizers applied to a text (ebay_staging_transform)
    text,             \* the input text
    normalized,       \* history: the last normalizer applied to it and its result
    \* calls of the surrogate key generator
    hashCalls,        \* history: the calls made, each with its result
    \* ---- the construction of the credential cache (ebay_auth.__init__)
    ctorArgs,         \* the arguments passed and the environment variables
    ctorResult,       \* history: how the construction and a first exchange ended
    \* ---- card master and weekly leaderboard (card_master_transform, weekly_top_tcg_cards_transform)
    market_prices,    \* the staged market price of each card variant
    card_master,      \* data/processed/card_master: its parquet files
    variant_files,    \* data/processed/card_price_variant_master: its parquet files
    leaderboard,      \* analytics/weekly_top_tcg_cards of the price_date, and how its build ended
    \* ---- market summary (analytics/duckdb/ebay_card_market_summary_transform)
    market_snapshot,  \* analytics/ebay_market_snapshot: its ingestion_date partitions
    summary           \* the table ebay_card_market_summary


authVars   == <<token, now, lastCall>>
ingestVars == <<cfg, runPc, cardIdx, passed, failed, raw, all_items,
                merged_payload, offset, pages, callLog, overReturned,
                authFailedAt>>
classVars  == <<classified>>
factVars   == <<today, schemas, staging_cards, staging_prices, variant_master,
                price_history, stagingRuns, factRuns, lastRun>>
snapVars   == <<ebay_staging, snapshot, ebayStagingRuns, snapshotRuns>>
catVars    == <<catPc, page, attempts, failed_pages, updated_failed_pages,
                page_idx, all_cards, ledger, fail_persisted, backfillRuns,
                pageLog, runPages>>
listVars   == <<listPc, listings, examined, staging_rows, rejected_count,
                staged_listings, listTrace, card_master_row>>
textVars   == <<text, normalized>>
hashVars   == <<hashCalls>>
ctorVars   == <<ctorArgs, ctorResult>>
boardVars  == <<market_prices, card_master, variant_files, leaderboard>>
summaryVars == <<market_snapshot, summary>>
vars == <<authVars, ingestVars, classVars, factVars, snapVars, catVars, listVars, textVars, hashVars, ctorVars, boardVars, summaryVars>>

Min(a, b) == IF a <= b THEN a ELSE b

(***************************************************************************)
(* Bounds of the model                                                     *)
(***************************************************************************)
NumCards      == 2    \* rows of enriched_df iterated by one run
MaxPageSize   == 2    \* page_size ranges over 1..MaxPageSize
MaxMaxResults == 3    \* max_results ranges over 1..MaxMaxResults
MaxMaxPages   == 3    \* max_pages ranges over 1..MaxMaxPages
MaxTicks      == 3    \* the clock advances at most this many TickStep's
MaxClassified == 2    \* classifications recorded by the classifier specification
MaxDays       == 2    \* dates are 1..MaxDays
MaxBatch      == 2    \* raw cards in the input of one tcg staging run
MaxStagingRuns == 1   \* tcg staging runs
MaxFactRuns   == 3    \* variant-master and price-history runs
MaxStagedListings == 2   \* rows of one eBay staging partition
MaxEbayStagingRuns == 2  \* eBay staging runs
MaxSnapshotRuns == 2     \* market snapshot runs
MaxCatalogPage == 2      \* pages of the catalog that hold cards
MaxBackfillRuns == 2     \* backfill runs after the ingestion run
MaxListings == 2         \* itemSummaries of one raw file
MaxTextLen == 4          \* characters of a text given to a normalizer

(***************************************************************************)
(* Credential cache: ingestion/ebay/ebay_auth.py                           *)
(***************************************************************************)
SAFETY_MARGIN == 60                  \* _is_expired: "expires_at - 60"
TickStep      == 60                  \* granularity of the modelled clock
ExpiresInSet  == {120, 121}          \* body["expires_in"] values the server sends
AuthFailStatuses == {401, 500}       \* non-200 answers of the token endpoint
ExchangeDelays == {0, TickStep}      \* time a credential exchange may take

NoToken == [present |-> FALSE, expires_at |-> 0]
NoCall  == [made |-> FALSE, at |-> 0, had |-> FALSE, exp |-> 0,
            exchanged |-> FALSE, ok |-> FALSE, issued |-> 0, expires_in |-> 0,
            status |-> 0]

\* EbayAuthClient._is_expired
IsExpiredStrict(tok, t) == t > tok.expires_at - SAFETY_MARGIN
IsExpired(tok, t) == t >= tok.expires_at - SAFETY_MARGIN

\* EbayAuthClient._fetch_new_token: the outcomes of one credential exchange
\* started at time t. A non-200 status raises EbayAuthError and leaves
\* self._token as it was.
FetchNewToken(tok, t) ==
    { [ok |-> TRUE, exchanged |-> TRUE, status |-> 200, now |-> t + d,
       expires_in |-> e,
       token |-> [present |-> TRUE, expires_at |-> (t + d) + e]] :
         d \in ExchangeDelays, e \in ExpiresInSet }
    \cup
    { [ok |-> FALSE, exchanged |-> TRUE, status |-> s, now |-> t + d,
       expires_in |-> 0, token |-> tok] :
         d \in ExchangeDelays, s \in AuthFailStatuses }

\* EbayAuthClient.get_access_token: the cached token when it is present and
\* not expired, else one credential exchange.
GetAccessToken(tok, t) ==
    IF tok.present /\ ~IsExpired(tok, t)
    THEN { [ok |-> TRUE, exchanged |-> FALSE, status |-> 0, now |-> t,
            expires_in |-> 0, token |-> tok] }
    ELSE FetchNewToken(tok, t)

\* The record of a get_access_token call made with cache tok at time t
CallRecord(tok, t, res) ==
    [made |-> TRUE, at |-> t, had |-> tok.present, exp |-> tok.expires_at,
     exchanged |-> res.exchanged, ok |-> res.ok, issued |-> res.now,
     expires_in |-> res.expires_in, status |-> res.status]

MaxNow == MaxTicks * TickStep

AuthInit ==
    /\ token = NoToken
    /\ now = 0
    /\ lastCall = NoCall

\* time passes between two operations
Tick ==
    /\ now + TickStep <= MaxNow
    /\ now' = now + TickStep
    /\ UNCHANGED <<token, lastCall>>

\* one call of get_access_token by some client of the cache
GetToken ==
    \E res \in GetAccessToken(token, now) :
        /\ res.now <= MaxNow
        /\ token' = res.token
        /\ now' = res.now
        /\ lastCall' = CallRecord(token, now, res)

(***************************************************************************)
(* Browse API client: ingestion/ebay/ebay_client.py                        *)
(***************************************************************************)
ErrorStatuses == {429, 504, 404, 500}   \* non-200 answers of the search endpoint

\* What the search endpoint can answer to a request with the given limit:
\* a JSON object with k itemSummaries (a misbehaving server may send
\* limit + 1), a JSON value that is not an object, a non-200 status, or no
\* answer at all (requests.get raises on a timeout or a lost connection).
SearchResponses(limit) ==
    { [kind |-> "ok", n |-> k, status |-> 200] : k \in 0..(limit + 1) }
    \cup { [kind |-> "nondict", n |-> 0, status |-> 200] }
    \cup { [kind |-> "status", n |-> 0, status |-> s] : s \in ErrorStatuses }
    \cup { [kind |-> "neterr", n |-> 0, status |-> 0] }

\* EbayClient.search_items: _get_headers() asks the cache for a token (an
\* EbayAuthError propagates), then the GET; a non-200 status raises
\* EbayClientError.
SearchItems(tok, t, limit) ==
    { [auth |-> a,
       resp |-> IF a.ok THEN r ELSE [kind |-> "autherr", n |-> 0, status |-> a.status]] :
         a \in GetAccessToken(tok, t), r \in SearchResponses(limit) }

Raises(resp) == resp.kind \in {"autherr", "status", "neterr"}

(***************************************************************************)
(* Acquisition run: ingestion/ebay/ebay_ingest.py                          *)
(***************************************************************************)
Configs ==
    [page_size : 1..MaxPageSize, max_results : 1..MaxMaxResults,
     max_pages : 1..MaxMaxPages]

NoFile == [written |-> FALSE, items |-> <<>>, envelope |-> 0]

\* the items the server serves from position off: off+1 .. off+n
PageItems(off, n) == [i \in 1..n |-> off + i]

\* fetch_all_items_for_query, line 136: the while condition
LoopGuard(c, items, pgs) == Len(items) < c.max_results /\ pgs < c.max_pages

\* fetch_all_items_for_query, line 138
PageLimitUncapped(c, acc) == c.page_size
PageLimit(c, acc) == Min(c.page_size, c.max_results - acc)

\* fetch_all_items_for_query, lines 146-160: the rest of one loop iteration
\* on the payload resp of request number pgs; brk says the loop was left by
\* a break. The envelope is named by the number of the page it came from.
FetchStepNoShortBreak(st, limit, resp, pgs) ==
    IF resp.kind = "nondict" THEN [st EXCEPT !.brk = TRUE]
    ELSE IF resp.n = 0 THEN [st EXCEPT !.brk = TRUE]
    ELSE [all_items |-> st.all_items \o PageItems(st.offset, resp.n),
          merged_payload |-> pgs,
          offset |-> st.offset + resp.n,
          brk |-> FALSE]
FetchStepOffsetByLimit(st, limit, resp, pgs) ==
    IF resp.kind = "nondict" THEN [st EXCEPT !.brk = TRUE]
    ELSE IF resp.n = 0 THEN [st EXCEPT !.brk = TRUE]
    ELSE [all_items |-> st.all_items \o PageItems(st.offset, resp.n),
          merged_payload |-> pgs,
          offset |-> IF resp.n < limit THEN st.offset ELSE st.offset + limit,
          brk |-> resp.n < limit]
FetchStepKeepsFirstEnvelope(st, limit, resp, pgs) ==
    IF resp.kind = "nondict" THEN [st EXCEPT !.brk = TRUE]
    ELSE IF resp.n = 0 THEN [st EXCEPT !.brk = TRUE]
    ELSE [all_items |-> st.all_items \o PageItems(st.offset, resp.n),
          merged_payload |-> IF st.merged_payload = 0 THEN pgs
                             ELSE st.merged_payload,
          offset |-> IF resp.n < limit THEN st.offset ELSE st.offset + resp.n,
          brk |-> resp.n < limit]
FetchStep(st, limit, resp, pgs) ==
    IF resp.kind = "nondict" THEN [st EXCEPT !.brk = TRUE]
    ELSE IF resp.n = 0 THEN [st EXCEPT !.brk = TRUE]
    ELSE [all_items |-> st.all_items \o PageItems(st.offset, resp.n),
          merged_payload |-> pgs,
          offset |-> IF resp.n < limit THEN st.offset ELSE st.offset + resp.n,
          brk |-> resp.n < limit]

LogEntry(off, limit, resp) ==
    [offset |-> off, limit |-> limit, kind |-> resp.kind, n |-> resp.n,
     status |-> resp.status]

IngestInit ==
    /\ cfg \in Configs
    /\ runPc = "loop"
    /\ cardIdx = 0
    /\ passed = 0
    /\ failed = 0
    /\ raw = [c \in 1..NumCards |-> NoFile]
    /\ all_items = <<>>
    /\ merged_payload = 0
    /\ offset = 0
    /\ pages = 0
    /\ callLog = <<>>
    /\ overReturned = FALSE
    /\ authFailedAt = 0

\* main(), lines 203-216: the next row of enriched_df; fetch_all_items_for_query
\* is entered with fresh locals (lines 130-134)
StartItem ==
    /\ runPc = "loop"
    /\ cardIdx < NumCards
    /\ cardIdx' = cardIdx + 1
    /\ all_items' = <<>>
    /\ merged_payload' = 0
    /\ offset' = 0
    /\ pages' = 0
    /\ callLog' = <<>>
    /\ runPc' = IF LoopGuard(cfg, <<>>, 0) THEN "page" ELSE "return"
    /\ UNCHANGED <<cfg, passed, failed, raw, overReturned, authFailedAt, authVars>>

\* one iteration of the while loop whose search_items call returns a payload
FetchPageReturns ==
    /\ runPc = "page"
    /\ LET limit == PageLimit(cfg, Len(all_items)) IN
       \E out \in SearchItems(token, now, limit) :
          /\ ~Raises(out.resp)
          /\ out.auth.now <= MaxNow
          /\ LET st == FetchStep([all_items |-> all_items,
                                  merged_payload |-> merged_payload,
                                  offset |-> offset, brk |-> FALSE],
                                 limit, out.resp, pages + 1)
             IN /\ all_items' = st.all_items
                /\ merged_payload' = st.merged_payload
                /\ offset' = st.offset
                /\ pages' = pages + 1
                /\ runPc' = IF st.brk \/ ~LoopGuard(cfg, st.all_items, pages + 1)
                            THEN "return" ELSE "page"
          /\ callLog' = Append(callLog, LogEntry(offset, limit, out.resp))
          /\ overReturned' = (overReturned \/ out.resp.n > limit)
          /\ token' = out.auth.token
          /\ now' = out.auth.now
          /\ lastCall' = CallRecord(token, now, out.auth)
          /\ UNCHANGED <<cfg, cardIdx, passed, failed, raw, authFailedAt>>

\* main(), lines 229-231: "except Exception" counts the card as failed and
\* the for loop goes on with the next row
ExceptHandlerReraise(f) == [failed |-> f + 1, runPc |-> "aborted"]
ExceptHandler(f) == [failed |-> f + 1, runPc |-> "loop"]

\* one iteration of the while loop whose search_items call raises: the
\* exception leaves fetch_all_items_for_query (its locals are lost) and is
\* caught by main(), lines 229-231
FetchPageRaises ==
    /\ runPc = "page"
    /\ LET limit == PageLimit(cfg, Len(all_items)) IN
       \E out \in SearchItems(token, now, limit) :
          /\ Raises(out.resp)
          /\ out.auth.now <= MaxNow
          /\ callLog' = Append(callLog, LogEntry(offset, limit, out.resp))
          /\ authFailedAt' = IF out.resp.kind = "autherr" /\ authFailedAt = 0
                             THEN cardIdx ELSE authFailedAt
          /\ token' = out.auth.token
          /\ now' = out.auth.now
          /\ lastCall' = CallRecord(token, now, out.auth)
    /\ pages' = pages + 1
    /\ failed' = ExceptHandler(failed).failed
    /\ runPc' = ExceptHandler(failed).runPc
    /\ UNCHANGED <<cfg, cardIdx, passed, raw, all_items, merged_payload,
                   offset, overReturned>>

\* fetch_all_items_for_query, lines 162-163, then main(), lines 218-227:
\* the merged payload is written as the card's raw file
ReturnAndWrite ==
    /\ runPc = "return"
    /\ raw' = [raw EXCEPT ![cardIdx] =
                 [written |-> TRUE, items |-> all_items, envelope |-> merged_payload]]
    /\ passed' = passed + 1
    /\ runPc' = "loop"
    /\ UNCHANGED <<cfg, cardIdx, failed, all_items, merged_payload, offset,
                   pages, callLog, overReturned, authFailedAt, authVars>>

\* main(), lines 233-239: every row was iterated
Complete ==
    /\ runPc = "loop"
    /\ cardIdx = NumCards
    /\ runPc' = "complete"
    /\ UNCHANGED <<cfg, cardIdx, passed, failed, raw, all_items, merged_payload,
                   offset, pages, callLog, overReturned, authFailedAt, authVars>>

IngestIdle ==
    /\ cfg = [page_size |-> 1, max_results |-> 1, max_pages |-> 1]
    /\ runPc = "idle"
    /\ cardIdx = 0
    /\ passed = 0
    /\ failed = 0
    /\ raw = [c \in 1..NumCards |-> NoFile]
    /\ all_items = <<>>
    /\ merged_payload = 0
    /\ offset = 0
    /\ pages = 0
    /\ callLog = <<>>
    /\ overReturned = FALSE
    /\ authFailedAt = 0

(***************************************************************************)
(* Listing classifier: processing/ebay_staging_transform.py                *)
(***************************************************************************)
\* number_match is an Optional[bool]: True, False or None
NumberMatches == {"True", "False", "None"}
Tiers == {"high", "medium", "low", "reject"}

\* compute_title_match_confidence, lines 130-149
ConfidenceNumberFirst(name_match, number_match, set_match) ==
    IF number_match = "True" THEN "high"
    ELSE IF ~name_match THEN "reject"
    ELSE IF number_match = "False" THEN "reject"
    ELSE IF number_match = "None" /\ set_match THEN "medium"
    ELSE "low"
compute_title_match_confidence(name_match, number_match, set_match) ==
    IF ~name_match THEN "reject"
    ELSE IF number_match = "False" THEN "reject"
    ELSE IF number_match = "True" THEN "high"
    ELSE IF number_match = "None" /\ set_match THEN "medium"
    ELSE "low"

ClassInit == classified = <<>>
ClassIdle == classified = <<>>

\* transform_listing, lines 186-190: one call of the classifier
Classify ==
    /\ Len(classified) < MaxClassified
    /\ \E nm \in BOOLEAN, num \in NumberMatches, sm \in BOOLEAN :
          classified' = Append(classified,
              [name_match |-> nm, number_match |-> num, set_match |-> sm,
               tier |-> compute_title_match_confidence(nm, num, sm)])


(***************************************************************************)
(* Data frames and parquet datasets                                        *)
(***************************************************************************)
\* A data frame is [columns, rows]; a row is a record of the modelled
\* columns plus "nulls", the set of its columns that hold None/NaN.
\* A dataset directory is the sequence of the parquet files written into
\* it, each file the sequence of its rows; reading the directory
\* (pd.read_parquet) yields the rows of all its files.
RECURSIVE ReadDataset(_)
ReadDataset(files) ==
    IF files = <<>> THEN <<>> ELSE Head(files) \o ReadDataset(Tail(files))

HasNull(df, c) == \E i \in DOMAIN df.rows : c \in df.rows[i].nulls

Dates == 1..MaxDays

\* pq.write_to_dataset(table, root_path) / df.to_parquet(path, partition_cols):
\* one new file, named by a fresh uuid, is added to the directory (to each
\* partition directory the rows fall in); files already there stay as they
\* are. No file is written for no rows of a partition.
WriteToDataset(files, rows) == Append(files, rows)
WriteToPartitions(store, rows) ==
    [d \in Dates |->
        LET part == SelectSeq(rows, LAMBDA r : r.price_date = d) IN
        IF part = <<>> THEN store[d] ELSE Append(store[d], part)]

(***************************************************************************)
(* TCG staging: processing/tcg_staging_transform.py                        *)
(***************************************************************************)
RAW_INGESTION_DATE == 1     \* extract_ingestion_date(RAW_DATA_PATH), a fixed path

\* the raw card objects of the input: id, whether tcgplayer.updatedAt is
\* there, and the market price of its one price type (0: "market" is None)
RawCardUniverse ==
    { [id |-> 1, has_updatedAt |-> TRUE,  price_type |-> "normal", market |-> 10],
      [id |-> 1, has_updatedAt |-> TRUE,  price_type |-> "normal", market |-> 20],
      [id |-> 2, has_updatedAt |-> TRUE,  price_type |-> "normal", market |-> 10],
      [id |-> 2, has_updatedAt |-> FALSE, price_type |-> "holofoil", market |-> 10],
      [id |-> 2, has_updatedAt |-> TRUE,  price_type |-> "normal", market |-> 0] }

RawBatches == UNION { [1..n -> RawCardUniverse] : n \in 0..MaxBatch }

CARDS_COLUMNS ==
    {"card_id", "name", "supertype", "set_printedTotal", "number", "rarity",
     "set_id", "set_name", "set_releaseDate", "ingestion_date"}
PRICES_COLUMNS ==
    {"card_id", "price_type", "market", "tcg_update_date", "ingestion_date"}

\* transform_cards, lines 168-199: one row per raw card
TransformCards(raw_cards) ==
    [columns |-> CARDS_COLUMNS,
     rows |-> [i \in DOMAIN raw_cards |->
                 [card_id |-> raw_cards[i].id,
                  ingestion_date |-> RAW_INGESTION_DATE,
                  nulls |-> {}]]]

RECURSIVE PriceRecords(_)
\* transform_card_prices, lines 202-254: one row per card and price type
\* whose market price is not None
PriceRecords(raw_cards) ==
    IF raw_cards = <<>> THEN <<>>
    ELSE LET card == Head(raw_cards) IN
         (IF card.market = 0 THEN <<>>
          ELSE << [card_id |-> card.id,
                   price_type |-> card.price_type,
                   market |-> card.market,
                   tcg_update_date |-> IF card.has_updatedAt THEN 1 ELSE 0,
                   ingestion_date |-> RAW_INGESTION_DATE,
                   nulls |-> IF card.has_updatedAt THEN {}
                             ELSE {"tcg_update_date"}] >>)
         \o PriceRecords(Tail(raw_cards))
TransformCardPrices(raw_cards) ==
    [columns |-> PRICES_COLUMNS, rows |-> PriceRecords(raw_cards)]

\* validate_dataframe, lines 261-301: "ok" or the check that raises ValueError
ValidateDataframe(df, schema) ==
    IF schema.columns \ df.columns # {} THEN "missing"
    ELSE IF df.columns \ schema.columns # {} THEN "unexpected"
    ELSE IF \E c \in schema.nonnull : HasNull(df, c) THEN "nulls"
    ELSE "ok"

(***************************************************************************)
(* Variant master: processing/card_price_variant_master_transform.py       *)
(***************************************************************************)
VARIANT_COLUMNS == {"card_price_variant_id", "card_id", "price_type"}

\* Integers wider than the checker's are sequences of base-10**6 limbs, the
\* lowest first.
LIMB == 1000000
MODULUS_LIMBS == 3           \* 10**18 = (10**6)**3

\* the characters of the hashed strings, and the number that stands for each
HASH_CHARS ==
    <<"0","1","2","3","4","5","6","7","8","9","|","-",
      "a","b","c","d","e","f","g","h","i","j","k","l","m",
      "n","o","p","q","r","s","t","u","v","w","x","y","z">>
CharCode(c) == CHOOSE i \in DOMAIN HASH_CHARS : HASH_CHARS[i] = c
DIGEST_BASE == 40

RECURSIVE BigMulAdd(_, _, _)
\* n * m + carry on limbs
BigMulAdd(n, m, carry) ==
    IF n = <<>> THEN IF carry = 0 THEN <<>> ELSE <<carry>>
    ELSE LET v == Head(n) * m + carry
         IN <<v % LIMB>> \o BigMulAdd(Tail(n), m, v \div LIMB)

\* int(hashlib.sha1(raw.encode("utf-8")).hexdigest(), 16): a digest wider
\* than 10**18 that differs for different strings (the strings of the model
\* are short enough for the digests to differ in their low 18 digits too)
SHA1_START == <<0, 0, 0, 1>>
RECURSIVE Sha1Fold(_, _)
Sha1Fold(acc, bytes) ==
    IF bytes = <<>> THEN acc
    ELSE Sha1Fold(BigMulAdd(acc, DIGEST_BASE, CharCode(Head(bytes))),
                  Tail(bytes))
Sha1Int(bytes) == Sha1Fold(SHA1_START, bytes)

\* n % (10**18)
BigMod(n) == SubSeq(n, 1, MODULUS_LIMBS)

\* f"{card_id}|{variant_type}"
FormatKey(card_id, variant_type) == card_id \o <<"|">> \o variant_type

\* deterministic_bigint_hash, lines 53-58
HashNoModulo(card_id, variant_type) == Sha1Int(FormatKey(card_id, variant_type))
deterministic_bigint_hash(card_id, variant_type) ==
    BigMod(Sha1Int(FormatKey(card_id, variant_type)))

\* the str values of the staged card_id and price_type columns
CardIdStr(card_id) == <<HASH_CHARS[card_id + 1]>>
PriceTypeStr(price_type) ==
    IF price_type = "normal" THEN <<"n","o","r","m","a","l">>
    ELSE <<"h","o","l","o","f","o","i","l">>

RECURSIVE DropDuplicates(_, _, _)
\* DataFrame.drop_duplicates(subset): of the rows with one key, the first
\* is kept (keep="first" is the default); Key(r) is a row's subset
DropDuplicates(rows, subset, seen) ==
    IF rows = <<>> THEN <<>>
    ELSE LET key == [c \in subset |-> Head(rows)[c]] IN
         IF key \in seen
         THEN DropDuplicates(Tail(rows), subset, seen)
         ELSE <<Head(rows)>>
              \o DropDuplicates(Tail(rows), subset, seen \cup {key})

\* transform_card_price_variant_master, lines 64-86
TransformVariantMaster(df_rows) ==
    LET pairs == DropDuplicates(
                    [i \in DOMAIN df_rows |->
                        [card_id |-> df_rows[i].card_id,
                         price_type |-> df_rows[i].price_type]],
                    {"card_id", "price_type"}, {})
    IN [columns |-> VARIANT_COLUMNS,
        rows |-> [i \in DOMAIN pairs |->
                    [card_price_variant_id |->
                        deterministic_bigint_hash(
                            CardIdStr(pairs[i].card_id),
                            PriceTypeStr(pairs[i].price_type)),
                     card_id |-> pairs[i].card_id,
                     price_type |-> pairs[i].price_type,
                     nulls |-> {}]]]

\* validate_schema, the copy of each processed-layer transform
\* (tcg_price_history_transform lines 37-47): columns only
ValidateSchema(df, schema) ==
    IF schema.columns \ df.columns # {} THEN "missing"
    ELSE IF df.columns \ schema.columns # {} THEN "unexpected"
    ELSE "ok"

(***************************************************************************)
(* Price history: processing/tcg_price_history_transform.py                *)
(***************************************************************************)
PRICE_HISTORY_COLUMNS ==
    {"card_id", "card_price_variant_id", "price_date", "tcg_update_date",
     "market_price", "ingestion_date"}

RECURSIVE MergeVariant(_, _, _)
\* df.merge(df_variant_master, on=["card_id", "price_type"], how="inner"):
\* every left row with every right row of its key, in the left order
MergeVariant(left, right, price_date) ==
    IF left = <<>> THEN <<>>
    ELSE LET l == Head(left)
             matches == SelectSeq(right, LAMBDA r :
                            r.card_id = l.card_id /\ r.price_type = l.price_type)
         IN [i \in DOMAIN matches |->
                [card_id |-> l.card_id,
                 card_price_variant_id |-> matches[i].card_price_variant_id,
                 price_date |-> price_date,
                 tcg_update_date |-> l.tcg_update_date,
                 market_price |-> l.market,
                 ingestion_date |-> l.ingestion_date,
                 nulls |-> l.nulls]]
            \o MergeVariant(Tail(left), right, price_date)

PriceKeyColumns == {"card_id", "card_price_variant_id", "price_date"}
PriceKey(r) == [c \in PriceKeyColumns |-> r[c]]

\* transform_price_history, lines 58-97
TransformPriceHistory(df_prices, df_variant_master, price_date) ==
    [columns |-> PRICE_HISTORY_COLUMNS,
     rows |-> DropDuplicates(
                 MergeVariant(df_prices, df_variant_master, price_date),
                 PriceKeyColumns, {})]

(***************************************************************************)
(* The build steps as runs over the stored datasets                        *)
(***************************************************************************)
\* the schema contracts the YAML files may hold
CardsSchemas == { [columns |-> CARDS_COLUMNS, nonnull |-> {"card_id"}] }
PricesSchemas ==
    { [columns |-> PRICES_COLUMNS, nonnull |-> nn] :
        nn \in { {"card_id", "price_type", "market"},
                 {"card_id", "price_type", "market", "tcg_update_date"} } }
VariantSchemas == { [columns |-> VARIANT_COLUMNS, nonnull |-> VARIANT_COLUMNS] }
PriceHistorySchemas ==
    { [columns |-> PRICE_HISTORY_COLUMNS, nonnull |-> nn] :
        nn \in { PRICE_HISTORY_COLUMNS \ {"tcg_update_date"},
                 PRICE_HISTORY_COLUMNS } }
    \cup { [columns |-> PRICE_HISTORY_COLUMNS \cup {"source"},
            nonnull |-> {"card_id"}],
           [columns |-> PRICE_HISTORY_COLUMNS \ {"ingestion_date"},
            nonnull |-> {"card_id"}] }

NoFrame == [columns |-> {}, rows |-> <<>>]
NoRun == [step |-> "none", outcome |-> "none", df |-> NoFrame,
          schema |-> [columns |-> {}, nonnull |-> {}], persisted |-> FALSE]

FactInit ==
    /\ today = 1
    /\ schemas \in [cards : CardsSchemas, card_prices : PricesSchemas,
                    variant_master : VariantSchemas,
                    price_history : PriceHistorySchemas]
    /\ staging_cards = <<>>
    /\ staging_prices = <<>>
    /\ variant_master = <<>>
    /\ price_history = [d \in Dates |-> <<>>]
    /\ stagingRuns = 0
    /\ factRuns = 0
    /\ lastRun = NoRun

FactIdle ==
    /\ today = 1
    /\ schemas = [cards |-> NoRun.schema, card_prices |-> NoRun.schema,
                  variant_master |-> NoRun.schema, price_history |-> NoRun.schema]
    /\ staging_cards = <<>>
    /\ staging_prices = <<>>
    /\ variant_master = <<>>
    /\ price_history = [d \in Dates |-> <<>>]
    /\ stagingRuns = 0
    /\ factRuns = 0
    /\ lastRun = NoRun

\* a later process starts on a later date
NextDay ==
    /\ today < MaxDays
    /\ today' = today + 1
    /\ UNCHANGED <<schemas, staging_cards, staging_prices, variant_master,
                   price_history, stagingRuns, factRuns, lastRun>>

\* tcg_staging_transform.run, lines 333-358: both frames are validated, then
\* both are written; a ValueError of either validation ends the run
TcgStagingRun ==
    /\ stagingRuns < MaxStagingRuns
    /\ stagingRuns' = stagingRuns + 1
    /\ \E raw_cards \in RawBatches :
          LET cards_df  == TransformCards(raw_cards)
              prices_df == TransformCardPrices(raw_cards)
              v1 == ValidateDataframe(cards_df, schemas.cards)
              v2 == ValidateDataframe(prices_df, schemas.card_prices)
              ok == v1 = "ok" /\ v2 = "ok"
          IN /\ staging_cards' =
                   IF ok THEN WriteToDataset(staging_cards, cards_df.rows)
                   ELSE staging_cards
             /\ staging_prices' =
                   IF ok THEN WriteToDataset(staging_prices, prices_df.rows)
                   ELSE staging_prices
             /\ lastRun' =
                   [step |-> "tcg_staging",
                    outcome |-> IF ok THEN "written" ELSE "ValueError",
                    df |-> prices_df, schema |-> schemas.card_prices,
                    persisted |-> ok]
    /\ UNCHANGED <<today, schemas, variant_master, price_history, factRuns>>

\* card_price_variant_master_transform.main, lines 106-123; read_staging_data
\* raises when the staging directory does not exist
VariantMasterRun ==
    /\ factRuns < MaxFactRuns
    /\ staging_prices # <<>>
    /\ factRuns' = factRuns + 1
    /\ LET df == TransformVariantMaster(ReadDataset(staging_prices))
           v  == ValidateSchema(df, schemas.variant_master)
       IN /\ variant_master' =
                IF v = "ok" THEN WriteToDataset(variant_master, df.rows)
                ELSE variant_master
          /\ lastRun' =
                [step |-> "variant_master",
                 outcome |-> IF v = "ok" THEN "written" ELSE "ValueError",
                 df |-> df, schema |-> schemas.variant_master,
                 persisted |-> v = "ok"]
    /\ UNCHANGED <<today, schemas, staging_cards, staging_prices, price_history,
                   stagingRuns>>

\* tcg_price_history_transform.main, lines 118-139; read_parquet raises when
\* a directory does not exist
PriceHistoryRun ==
    /\ factRuns < MaxFactRuns
    /\ staging_prices # <<>>
    /\ variant_master # <<>>
    /\ factRuns' = factRuns + 1
    /\ LET df == TransformPriceHistory(ReadDataset(staging_prices),
                                       ReadDataset(variant_master), today)
           v  == ValidateSchema(df, schemas.price_history)
       IN /\ price_history' =
                IF v = "ok" THEN WriteToPartitions(price_history, df.rows)
                ELSE price_history
          /\ lastRun' =
                [step |-> "price_history",
                 outcome |-> IF v = "ok" THEN "written" ELSE "ValueError",
                 df |-> df, schema |-> schemas.price_history,
                 persisted |-> (v = "ok" /\ df.rows # <<>>)]
    /\ UNCHANGED <<today, schemas, staging_cards, staging_prices, variant_master,
                   stagingRuns>>

(***************************************************************************)
(* eBay market snapshot: analytics/ebay_card_market_snapshot_transform.py  *)
(***************************************************************************)
\* the staged listing rows (the output rows of transform_listing): the
\* columns the snapshot reads that decide what it keeps
\* the signals transform_listing computes (lines 179-184) for the listings
\* of the input, by listing_id; the row with no listing_id is listing 0
ListingSignals ==
    [id \in 0..5 |->
        CASE id = 1 -> [name_match |-> TRUE, number_match |-> "True", set_match |-> FALSE]
          [] id = 2 -> [name_match |-> TRUE, number_match |-> "None", set_match |-> TRUE]
          [] id = 3 -> [name_match |-> TRUE, number_match |-> "None", set_match |-> FALSE]
          [] id = 4 -> [name_match |-> FALSE, number_match |-> "True", set_match |-> TRUE]
          [] id = 5 -> [name_match |-> TRUE, number_match |-> "False", set_match |-> TRUE]
          [] OTHER  -> [name_match |-> TRUE, number_match |-> "True", set_match |-> TRUE]]

\* the staged row of a listing, lines 186-190 and 203-233
StagedRow(id, card_id, nulls) ==
    [listing_id |-> id, card_id |-> card_id,
     title_match_confidence |->
         compute_title_match_confidence(ListingSignals[id].name_match,
                                        ListingSignals[id].number_match,
                                        ListingSignals[id].set_match),
     nulls |-> nulls]

StagedRowUniverse ==
    { StagedRow(1, 1, {}), StagedRow(2, 1, {}), StagedRow(3, 2, {}),
      StagedRow(4, 2, {}), StagedRow(5, 1, {}), StagedRow(0, 1, {"listing_id"}) }

StagedBatches == UNION { [1..n -> StagedRowUniverse] : n \in 1..MaxStagedListings }

\* transform_ebay_card_market_snapshot, lines 34-57: the high and medium
\* rows with a listing_id and a card_id
transform_ebay_card_market_snapshot(rows) ==
    SelectSeq(rows, LAMBDA r :
        /\ r.title_match_confidence \in {"high", "medium"}
        /\ "listing_id" \notin r.nulls
        /\ "card_id" \notin r.nulls)

\* main, lines 72-95: the latest price_date directory, and the latest
\* ingestion_date directory in it
PriceDateDirs(staging) ==
    {pd \in Dates : \E ing \in Dates : staging[pd][ing] # <<>>}
IngestionDateDirs(staging, pd) == {ing \in Dates : staging[pd][ing] # <<>>}
MaxOf(S) == CHOOSE x \in S : \A y \in S : y <= x

\* pq.write_table(table, output_dir / "part-000.parquet"): the file of that
\* name is replaced
WriteTable(store, ing, rows) == [store EXCEPT ![ing] = rows]

SnapInit ==
    /\ ebay_staging = [pd \in Dates |-> [ing \in Dates |-> <<>>]]
    /\ snapshot = [ing \in Dates |-> <<>>]
    /\ ebayStagingRuns = 0
    /\ snapshotRuns = 0

SnapIdle ==
    /\ ebay_staging = [pd \in Dates |-> [ing \in Dates |-> <<>>]]
    /\ snapshot = [ing \in Dates |-> <<>>]
    /\ ebayStagingRuns = 0
    /\ snapshotRuns = 0

\* ebay_staging_transform.main, lines 289-303: the rows of a run, when there
\* are any, are written as part-000.parquet of the run's price_date and
\* ingestion_date
EbayStagingRun ==
    /\ ebayStagingRuns < MaxEbayStagingRuns
    /\ ebayStagingRuns' = ebayStagingRuns + 1
    /\ \E pd \in Dates, ing \in Dates, rows \in StagedBatches :
          ebay_staging' = [ebay_staging EXCEPT ![pd][ing] = rows]
    /\ UNCHANGED <<snapshot, snapshotRuns>>

\* ebay_card_market_snapshot_transform.main, lines 64-138
SnapshotRun ==
    /\ snapshotRuns < MaxSnapshotRuns
    /\ PriceDateDirs(ebay_staging) # {}
    /\ snapshotRuns' = snapshotRuns + 1
    /\ LET latest_price_date == MaxOf(PriceDateDirs(ebay_staging))
           ingestion_date ==
               MaxOf(IngestionDateDirs(ebay_staging, latest_price_date))
           staging_df ==
               [i \in DOMAIN ebay_staging[latest_price_date][ingestion_date] |->
                   LET r == ebay_staging[latest_price_date][ingestion_date][i]
                   IN [listing_id |-> r.listing_id, card_id |-> r.card_id,
                       title_match_confidence |-> r.title_match_confidence,
                       ingestion_date |-> ingestion_date, nulls |-> r.nulls]]
           analytics_df == transform_ebay_card_market_snapshot(staging_df)
       IN snapshot' = IF analytics_df = <<>> THEN snapshot
                      ELSE WriteTable(snapshot, ingestion_date, analytics_df)
    /\ UNCHANGED <<ebay_staging, ebayStagingRuns>>

(***************************************************************************)
(* Catalog ingestion and backfill: ingestion/pokemon_tcg_ingestion.py,     *)
(* ingestion/pokemon_tcg_backfill.py                                       *)
(***************************************************************************)
RETRY_BUDGET == 5            \* for attempts in range(5)
BACKOFF_SECONDS == 5         \* wait = 5 * (attempts + 1)
RETRIABLE_STATUSES == {504, 429, 404}
CatalogStatuses == {429, 504, 404, 500, 403}   \* 4xx/5xx statuses the API may answer

\* what the cards endpoint can answer to the request of a page: a body with
\* cards (only the first MaxCatalogPage pages hold cards), a body with no
\* cards, a 4xx/5xx status (raise_for_status raises HTTPError), or no answer
\* (timeout, connection failure: another RequestException)
CatalogResponses(p) ==
    (IF p <= MaxCatalogPage THEN {[kind |-> "cards", status |-> 200]} ELSE {})
    \cup {[kind |-> "empty", status |-> 200]}
    \cup {[kind |-> "status", status |-> s] : s \in CatalogStatuses}
    \cup {[kind |-> "neterr", status |-> 0]}

\* the branch of the try statement a response takes
Outcome(r) ==
    IF r.kind = "status"
    THEN IF r.status \in RETRIABLE_STATUSES THEN "retriable" ELSE "permanent"
    ELSE r.kind

\* wait = 5 * (attempts + 1)
WaitConstant(n) == BACKOFF_SECONDS
Wait(n) == BACKOFF_SECONDS * (n + 1)

\* sorted(set(pages))
RECURSIVE SortedSet(_)
SortedSet(S) ==
    IF S = {} THEN <<>>
    ELSE LET m == CHOOSE x \in S : \A y \in S : x <= y
         IN <<m>> \o SortedSet(S \ {m})
Range(q) == {q[i] : i \in DOMAIN q}

NoLedger == [present |-> FALSE, source |-> "none", failed_pages |-> <<>>]

\* the request made for page p in iteration n of the for loop, as logged
RequestRecord(p, n, r) ==
    [page |-> p, attempt |-> n, outcome |-> Outcome(r),
     wait |-> IF Outcome(r) \in {"retriable", "neterr"} THEN Wait(n) ELSE 0]

\* the for loop after the request of iteration n: it is left with success
\* ("cards", "empty", "permanent"), goes on with n + 1, or is exhausted
ForLoopRetriesPermanent(n, r) ==
    IF Outcome(r) \in {"cards", "empty"} THEN "left"
    ELSE IF n + 1 < RETRY_BUDGET THEN "next"
    ELSE "exhausted"
ForLoop(n, r) ==
    IF Outcome(r) \in {"cards", "empty", "permanent"} THEN "left"
    ELSE IF n + 1 < RETRY_BUDGET THEN "next"
    ELSE "exhausted"

\* page += 1, lines 72, 89 and 99: after the cards of the page were
\* appended, after a permanent error, and after the for loop is exhausted
NextPageNoSkipOnExhaustion(p, o, loop) ==
    IF o \in {"cards", "permanent"} THEN p + 1 ELSE p
NextPage(p, o, loop) ==
    IF o \in {"cards", "permanent"} \/ loop = "exhausted" THEN p + 1 ELSE p

\* done = True, lines 63-67: only a body with no cards ends the while loop
\* (the exhausted for loop ends in "continue")
DoneOnExhaustion(o, loop) == o = "empty" \/ loop = "exhausted"
Done(o, loop) == o = "empty"

CatInit ==
    /\ catPc = "ingest"
    /\ page = 1
    /\ attempts = 0
    /\ failed_pages = <<>>
    /\ updated_failed_pages = <<>>
    /\ page_idx = 0
    /\ all_cards = <<>>
    /\ ledger = NoLedger
    /\ fail_persisted = NoLedger
    /\ backfillRuns = 0
    /\ pageLog = <<>>
    /\ runPages = {}

CatIdle ==
    /\ catPc = "idle"
    /\ page = 1
    /\ attempts = 0
    /\ failed_pages = <<>>
    /\ updated_failed_pages = <<>>
    /\ page_idx = 0
    /\ all_cards = <<>>
    /\ ledger = NoLedger
    /\ fail_persisted = NoLedger
    /\ backfillRuns = 0
    /\ pageLog = <<>>
    /\ runPages = {}

\* pokemon_tcg_ingestion, lines 50-102: one request of the ingestion loop and
\* what the loop does with its outcome
IngestRequest ==
    /\ catPc = "ingest"
    /\ page <= MaxCatalogPage + 1
    /\ \E r \in CatalogResponses(page) :
          LET o == Outcome(r)
              loop == ForLoop(attempts, r)
              gaveUp == o = "permanent" \/ loop = "exhausted"
          IN /\ pageLog' = IF attempts = 0
                           THEN <<RequestRecord(page, attempts, r)>>
                           ELSE Append(pageLog, RequestRecord(page, attempts, r))
             /\ all_cards' = IF o = "cards" THEN Append(all_cards, page)
                             ELSE all_cards
             /\ failed_pages' = IF gaveUp THEN Append(failed_pages, page)
                                ELSE failed_pages
             /\ page' = NextPage(page, o, loop)
             /\ attempts' = IF loop = "next" THEN attempts + 1 ELSE 0
             /\ catPc' = IF Done(o, loop) THEN "ingest_write" ELSE "ingest"
    /\ runPages' = runPages \cup {page}
    /\ UNCHANGED <<updated_failed_pages, page_idx, ledger, fail_persisted,
                   backfillRuns>>

\* pokemon_tcg_ingestion, lines 106-122: the output file, and the ledger when
\* pages failed
IngestWrite ==
    /\ catPc = "ingest_write"
    /\ ledger' = IF failed_pages # <<>>
                 THEN [present |-> TRUE, source |-> "pokemon_tcg_api",
                       failed_pages |-> SortedSet(Range(failed_pages))]
                 ELSE ledger
    /\ catPc' = "ingested"
    /\ UNCHANGED <<page, attempts, failed_pages, updated_failed_pages, page_idx,
                   all_cards, fail_persisted, backfillRuns, pageLog, runPages>>

\* pokemon_tcg_backfill, lines 37-45: the ledger is read (open raises
\* FileNotFoundError when it is not there)
BackfillStart ==
    /\ catPc \in {"ingested", "backfilled"}
    /\ backfillRuns < MaxBackfillRuns
    /\ backfillRuns' = backfillRuns + 1
    /\ failed_pages' = ledger.failed_pages
    /\ updated_failed_pages' = <<>>
    /\ all_cards' = <<>>
    /\ page_idx' = 1
    /\ page' = IF ledger.failed_pages # <<>> THEN ledger.failed_pages[1] ELSE page
    /\ attempts' = 0
    /\ pageLog' = <<>>
    /\ runPages' = {}
    /\ catPc' = IF ~ledger.present THEN "crashed"
                ELSE IF ledger.failed_pages = <<>> THEN "backfill_write"
                ELSE "backfill"
    /\ UNCHANGED <<ledger, fail_persisted>>

\* pokemon_tcg_backfill, lines 47-88: one request of the backfill loop and
\* what the loop does with its outcome
BackfillRequest ==
    /\ catPc = "backfill"
    /\ \E r \in CatalogResponses(page) :
          LET o == Outcome(r)
              loop == ForLoop(attempts, r)
              gaveUp == o = "permanent" \/ loop = "exhausted"
              moveOn == loop # "next"
          IN /\ pageLog' = IF attempts = 0
                           THEN <<RequestRecord(page, attempts, r)>>
                           ELSE Append(pageLog, RequestRecord(page, attempts, r))
             /\ all_cards' = IF o = "cards" THEN Append(all_cards, page)
                             ELSE all_cards
             /\ updated_failed_pages' =
                   IF gaveUp THEN Append(updated_failed_pages, page)
                   ELSE updated_failed_pages
             /\ page_idx' = IF moveOn THEN page_idx + 1 ELSE page_idx
             /\ page' = IF moveOn /\ page_idx + 1 <= Len(failed_pages)
                        THEN failed_pages[page_idx + 1] ELSE page
             /\ attempts' = IF loop = "next" THEN attempts + 1 ELSE 0
             /\ catPc' = IF moveOn /\ page_idx + 1 > Len(failed_pages)
                         THEN "backfill_write" ELSE "backfill"
    /\ runPages' = runPages \cup {page}
    /\ UNCHANGED <<failed_pages, ledger, fail_persisted, backfillRuns>>

\* pokemon_tcg_backfill, lines 90-112: the output file; then the pages that
\* failed again are written to <date>_fail_persisted.json, or, when there
\* are none, <date>_failed.json is removed
BackfillWrite ==
    /\ catPc = "backfill_write"
    /\ fail_persisted' =
          IF updated_failed_pages # <<>>
          THEN [present |-> TRUE, source |-> "tcg_api_backfill_fails",
                failed_pages |-> SortedSet(Range(updated_failed_pages))]
          ELSE fail_persisted
    /\ ledger' = IF updated_failed_pages # <<>> THEN ledger ELSE NoLedger
    /\ catPc' = "backfilled"
    /\ UNCHANGED <<page, attempts, failed_pages, updated_failed_pages, page_idx,
                   all_cards, backfillRuns, pageLog, runPages>>

(***************************************************************************)
(* Text: a str is modelled as the sequence of its characters               *)
(***************************************************************************)
LowerLetters == {"a","b","c","d","e","f","g","h","i","j","k","l","m",
                 "n","o","p","q","r","s","t","u","v","w","x","y","z"}
Digits == {"0","1","2","3","4","5","6","7","8","9"}
UpperToLower ==
    [c \in {"A","B","C","D","E","F","G","H","I","J","K","L","M",
            "N","O","P","Q","R","S","T","U","V","W","X","Y","Z"} |->
        CASE c = "A" -> "a" [] c = "B" -> "b" [] c = "C" -> "c" [] c = "D" -> "d"
          [] c = "E" -> "e" [] c = "F" -> "f" [] c = "G" -> "g" [] c = "H" -> "h"
          [] c = "I" -> "i" [] c = "J" -> "j" [] c = "K" -> "k" [] c = "L" -> "l"
          [] c = "M" -> "m" [] c = "N" -> "n" [] c = "O" -> "o" [] c = "P" -> "p"
          [] c = "Q" -> "q" [] c = "R" -> "r" [] c = "S" -> "s" [] c = "T" -> "t"
          [] c = "U" -> "u" [] c = "V" -> "v" [] c = "W" -> "w" [] c = "X" -> "x"
          [] c = "Y" -> "y" [] c = "Z" -> "z"]

\* str.lower(), one character
LowerChar(c) == IF c \in DOMAIN UpperToLower THEN UpperToLower[c] ELSE c
\* str.lower()
Lower(s) == [i \in DOMAIN s |-> LowerChar(s[i])]

\* \w of a str pattern: letters of any script, digits, the underscore
IsWordChar(c) ==
    c \in LowerLetters \cup DOMAIN UpperToLower \cup Digits \cup {"_", "δ"}
\* \s
IsSpaceChar(c) == c \in {" ", "\t"}

\* re.sub(r"[^\w\s]", " ", s)
SubNonWord(s) ==
    [i \in DOMAIN s |-> IF IsWordChar(s[i]) \/ IsSpaceChar(s[i]) THEN s[i] ELSE " "]

RECURSIVE LStrip(_)
\* str.lstrip()
LStrip(s) ==
    IF s # <<>> /\ IsSpaceChar(Head(s)) THEN LStrip(Tail(s)) ELSE s

RECURSIVE RStrip(_)
\* str.rstrip()
RStrip(s) ==
    IF s # <<>> /\ IsSpaceChar(s[Len(s)]) THEN RStrip(SubSeq(s, 1, Len(s) - 1))
    ELSE s

\* str.strip()
Strip(s) == RStrip(LStrip(s))

RECURSIVE CollapseSpaces(_)
\* re.sub(r"\s+", " ", s)
CollapseSpaces(s) ==
    IF s = <<>> THEN <<>>
    ELSE IF IsSpaceChar(Head(s)) THEN <<" ">> \o CollapseSpaces(LStrip(s))
    ELSE <<Head(s)>> \o CollapseSpaces(Tail(s))

\* needle in hay
Contains(hay, needle) ==
    \E i \in 0..(Len(hay) - Len(needle)) : SubSeq(hay, i + 1, i + Len(needle)) = needle

\* \b before position i (1 .. Len(s) + 1) of s
WordBoundary(s, i) ==
    LET before == i > 1 /\ IsWordChar(s[i - 1])
        after  == i <= Len(s) /\ IsWordChar(s[i])
    IN before # after

\* normalize_title, lines 59-72
NormalizeTitleCollapseFirst(t) == Strip(SubNonWord(CollapseSpaces(Lower(t))))
normalize_title(t) == Strip(CollapseSpaces(SubNonWord(Lower(t))))

\* the descriptors of normalize_card_name's pattern
CARD_NAME_DESCRIPTORS ==
    { <<"e","x">>, <<"g","x">>, <<"v">>, <<"v","m","a","x">>,
      <<"v","s","t","a","r">>, <<"p","r","o","m","o">>, <<"a","l","t">>,
      <<"a","r","t">>, <<"l","v","x">> }

RECURSIVE SubDescriptors(_, _)
\* re.sub(r"\b(ex|gx|v|vmax|vstar|promo|alt|art|lvx)\b", " ", s), scanning
\* from position i: the leftmost match, the first alternative that matches
\* there, then on from the end of the match
SubDescriptors(s, i) ==
    IF i > Len(s) THEN <<>>
    ELSE LET ms == { d \in CARD_NAME_DESCRIPTORS :
                        /\ i + Len(d) - 1 <= Len(s)
                        /\ SubSeq(s, i, i + Len(d) - 1) = d
                        /\ WordBoundary(s, i)
                        /\ WordBoundary(s, i + Len(d)) }
         IN IF ms = {} THEN <<s[i]>> \o SubDescriptors(s, i + 1)
            ELSE LET d == CHOOSE d \in ms : TRUE
                 IN <<" ">> \o SubDescriptors(s, i + Len(d))

\* str.replace("δ", "")
RemoveDelta(s) == SelectSeq(s, LAMBDA c : c # "δ")

\* normalize_card_name, lines 74-87
normalize_card_name(card_name) ==
    Strip(CollapseSpaces(RemoveDelta(SubDescriptors(SubNonWord(Lower(card_name)), 1))))

\* the texts the normalizers are applied to: upper and lower case letters of
\* descriptors, the delta symbol, white space, punctuation
TextAlphabet == {"e", "x", "E", "δ", " ", "-"}
Texts == UNION { [1..n -> TextAlphabet] : n \in 0..MaxTextLen }

NoResult == [fn |-> "none", out |-> <<>>]

TextInit ==
    /\ text \in Texts
    /\ normalized = NoResult

TextIdle ==
    /\ text = <<>>
    /\ normalized = NoResult

\* a call normalize_title(text)
ApplyNormalizeTitle ==
    /\ normalized.fn = "none"
    /\ normalized' = [fn |-> "normalize_title", out |-> normalize_title(text)]
    /\ UNCHANGED text

\* a call normalize_card_name(text)
ApplyNormalizeCardName ==
    /\ normalized.fn = "none"
    /\ normalized' = [fn |-> "normalize_card_name", out |-> normalize_card_name(text)]
    /\ UNCHANGED text

(***************************************************************************)
(* Construction of the credential cache: EbayAuthClient.__init__           *)
(***************************************************************************)
\* an argument or an environment variable: None / unset, or a string
NoneValue == [given |-> FALSE, value |-> <<>>]
Str(v) == [given |-> TRUE, value |-> v]
CredentialValues ==
    {NoneValue, Str(<<>>), Str(<<" ">>), Str(<<"i", "d">>), Str(<<" ", "i", "d">>)}

\* bool(x) of an Optional[str]
Truthy(x) == x.given /\ x.value # <<>>

\* arg or os.getenv(name).strip(), lines 43-44: the value, or the
\* AttributeError of None.strip()
ArgOrEnv(arg, env) ==
    IF Truthy(arg) THEN [raised |-> "none", value |-> arg.value]
    ELSE IF ~env.given THEN [raised |-> "AttributeError", value |-> <<>>]
    ELSE [raised |-> "none", value |-> Strip(env.value)]

\* EbayAuthClient.__init__, lines 38-51
EbayAuthClientInit(a) ==
    LET id == ArgOrEnv(a.client_id, a.env_client_id) IN
    IF id.raised # "none" THEN [outcome |-> id.raised]
    ELSE LET secret == ArgOrEnv(a.client_secret, a.env_client_secret) IN
         IF secret.raised # "none" THEN [outcome |-> secret.raised]
         ELSE IF id.value = <<>> \/ secret.value = <<>>
              THEN [outcome |-> "EbayAuthError"]
              ELSE [outcome |-> "constructed"]

NoCtor == [outcome |-> "none", exchange |-> "none", status |-> 0]

CtorInit ==
    /\ ctorArgs \in [client_id : CredentialValues, client_secret : CredentialValues,
                     env_client_id : CredentialValues,
                     env_client_secret : CredentialValues]
    /\ ctorResult = NoCtor

CtorIdle ==
    /\ ctorArgs = [client_id |-> NoneValue, client_secret |-> NoneValue,
                   env_client_id |-> NoneValue, env_client_secret |-> NoneValue]
    /\ ctorResult = NoCtor

\* EbayAuthClient(client_id, client_secret)
Construct ==
    /\ ctorResult.outcome = "none"
    /\ ctorResult' = [ctorResult EXCEPT
                         !.outcome = EbayAuthClientInit(ctorArgs).outcome]
    /\ UNCHANGED ctorArgs

\* the first get_access_token() of the constructed client: one credential
\* exchange, a token or an EbayAuthError with the status
FirstExchange ==
    /\ ctorResult.outcome = "constructed"
    /\ ctorResult.exchange = "none"
    /\ \E res \in GetAccessToken(NoToken, 0) :
          ctorResult' = [ctorResult EXCEPT
                            !.exchange = IF res.ok THEN "token" ELSE "EbayAuthError",
                            !.status = res.status]
    /\ UNCHANGED ctorArgs

(***************************************************************************)
(* Non-card filter: processing/ebay_filters.py                             *)
(***************************************************************************)

\* ebay_filters.NON_CARD_KEYWORDS, lines 4-32
NON_CARD_KEYWORDS ==
    { <<"p","r","o","x","y">>,
      <<"f","a","n"," ","a","r","t">>,
      <<"f","a","n","a","r","t">>,
      <<"f","a","n"," ","m","a","d","e">>,
      <<"f","a","n","-","m","a","d","e">>,
      <<"c","u","s","t","o","m">>,
      <<"f","a","k","e">>,
      <<"u","n","o","f","f","i","c","i","a","l">>,
      <<"r","e","p","l","i","c","a">>,
      <<"r","e","p","r","i","n","t">>,
      <<"s","t","i","c","k","e","r">>,
      <<"p","o","s","t","e","r">>,
      <<"p","r","i","n","t">>,
      <<"d","i","s","p","l","a","y">>,
      <<"a","r","t"," ","c","a","s","e">>,
      <<"a","r","t","w","o","r","k"," ","c","a","s","e">>,
      <<"f","a","n","m","a","d","e">>,
      <<"g","o","l","d"," ","f","o","i","l">>,
      <<"g","o","l","d","-","f","o","i","l">>,
      <<"g","o","l","d","f","o","i","l">>,
      <<"c","u","s","t","o","m"," ","f","o","i","l">>,
      <<"r","a","i","n","b","o","w"," ","f","o","i","l">>,
      <<"o","r","a","n","g","e"," ","f","o","i","l">> }

\* the colours of CUSTOM_FOIL_PATTERN, lines 34-37
FOIL_COLORS ==
    { <<"g","o","l","d">>,
      <<"s","i","l","v","e","r">>,
      <<"o","r","a","n","g","e">>,
      <<"b","l","u","e">>,
      <<"r","e","d">>,
      <<"g","r","e","e","n">>,
      <<"p","i","n","k">>,
      <<"p","u","r","p","l","e">>,
      <<"r","a","i","n","b","o","w">> }

FOIL == <<"f","o","i","l">>

\* CUSTOM_FOIL_PATTERN.search(s): \b(colour)\s*foil\b, ignoring case
CustomFoilPatternSearch(s) ==
    LET low == Lower(s) IN
    \E i \in 1..Len(s), c \in FOIL_COLORS, k \in 0..Len(s) :
        LET j == i + Len(c)            \* first position after the colour
            f == j + k                 \* where "foil" starts
        IN /\ f + Len(FOIL) - 1 <= Len(s)
           /\ WordBoundary(s, i)
           /\ SubSeq(low, i, j - 1) = c
           /\ \A p \in j..(f - 1) : IsSpaceChar(s[p])
           /\ SubSeq(low, f, f + Len(FOIL) - 1) = FOIL
           /\ WordBoundary(s, f + Len(FOIL))

\* is_non_card_listing, lines 39-48
is_non_card_listing(title_normalized) ==
    \/ \E keyword \in NON_CARD_KEYWORDS : Contains(title_normalized, keyword)
    \/ CustomFoilPatternSearch(title_normalized)


(***************************************************************************)
(* eBay staging: processing/ebay_staging_transform.py                      *)
(***************************************************************************)

\* transform_listing's own NON_CARD_KEYWORDS, line 169
INLINE_NON_CARD_KEYWORDS ==
    { <<"p","r","o","x","y">>,
      <<"f","a","n"," ","a","r","t">>,
      <<"f","a","n","a","r","t">>,
      <<"c","u","s","t","o","m">>,
      <<"s","t","i","c","k","e","r">>,
      <<"d","i","s","p","l","a","y">>,
      <<"p","r","i","n","t">>,
      <<"p","o","s","t","e","r">>,
      <<"r","e","p","r","i","n","t">>,
      <<"f","a","k","e">>,
      <<"u","n","o","f","f","i","c","i","a","l">>,
      <<"r","e","p","l","i","c","a">>,
      <<"a","r","t"," ","c","a","s","e">>,
      <<"a","r","t","w","o","r","k"," ","c","a","s","e">> }

\* the raw listing titles of the input
ListingTitles ==
    { <<"M","e","w"," ","4","/","1","0","2"," ","B","a","s","e">>,
      <<"M","e","w"," ","B","a","s","e">>,
      <<"M","e","w">>,
      <<"M","e","w"," ","5","/","1","0","2"," ","B","a","s","e">>,
      <<"A","b","r","a"," ","4","/","1","0","2">>,
      <<"A","b","r","a"," ","B","a","s","e">>,
      <<"C","u","s","t","o","m"," ","G","o","l","d"," ","F","o","i","l"," ","M","e","w"," ","P","r","o","x","y"," ","C","a","r","d">>,
      <<"M","e","w"," ","S","i","l","v","e","r"," ","F","o","i","l">>,
      <<"M","e","w"," ","g","o","l","d","-","f","o","i","l"," ","4","/","1","0","2">>,
      <<"M","e","w"," ","F","a","n"," ","M","a","d","e">>,
      <<"M","e","w"," ","P","r","i","n","t"," ","4","/","1","0","2">> }

\* card_name_match, lines 100-103
card_name_match(title, card_name) ==
    Contains(normalize_title(title), normalize_card_name(card_name))

NoNumber == <<>>
IsDigits(s) == \A i \in DOMAIN s : s[i] \in Digits

\* extract_card_number, lines 105-107: the leftmost match of
\* \b(\d{1,3}/\d{1,3})\b, or None
extract_card_number(title) ==
    LET ms == { m \in (1..Len(title)) \X (1..3) \X (1..3) :
                  LET i == m[1]  a == m[2]  b == m[3]
                      slash == i + a
                      end == slash + b
                  IN /\ end <= Len(title)
                     /\ WordBoundary(title, i)
                     /\ IsDigits(SubSeq(title, i, slash - 1))
                     /\ title[slash] = "/"
                     /\ IsDigits(SubSeq(title, slash + 1, end))
                     /\ WordBoundary(title, end + 1) }
    IN IF ms = {} THEN NoNumber
       ELSE LET m == CHOOSE m \in ms : \A n \in ms : m[1] <= n[1]
            IN SubSeq(title, m[1], m[1] + m[2] + m[3])

\* card_number_match, lines 109-113: True, False or None
card_number_match(title, card_number) ==
    LET title_number == extract_card_number(title) IN
    IF title_number = NoNumber THEN "None"
    ELSE IF title_number = card_number THEN "True" ELSE "False"

\* normalize_set_name, lines 89-93
normalize_set_name(set_name) == normalize_title(set_name)

\* a card_master row with the columns main requires (required_cols, line 248)
CardRow ==
    [card_id |-> 1, card_name |-> <<"M","e","w">>,
     card_number |-> <<"4","/","1","0","2">>, set_name |-> <<"B","a","s","e">>]

\* transform_card_master, card_master_transform lines 54-81: the row of the
\* same card as the card-master build writes it ("name" is renamed to
\* "card_name"; "number" and "set_printedTotal" keep their names)
transform_card_master_row(card) ==
    [card_id |-> card.card_id, card_name |-> card.name,
     number |-> card.number, set_printedTotal |-> card.set_printedTotal,
     set_name |-> card.set_name]

StagedCard ==
    [card_id |-> 1, name |-> <<"M","e","w">>, number |-> <<"4">>,
     set_printedTotal |-> <<"1","0","2">>, set_name |-> <<"B","a","s","e">>]

\* the card_master rows the staging run may find
CardRows == {CardRow, transform_card_master_row(StagedCard)}

NoRow == [kept |-> FALSE]

\* transform_listing, lines 155-233: the staging row of a listing, or None;
\* resolved says whether lines 176-190 ran, signals what they computed,
\* raised the exception of card_row["card_number"] (line 177)
transform_listing(item_summary, card_row) ==
    LET raw_title == item_summary.title
        title_normalized == normalize_title(raw_title)
    IN IF \E kw \in INLINE_NON_CARD_KEYWORDS : Contains(title_normalized, kw)
       THEN [row |-> NoRow, resolved |-> FALSE, raised |-> "none",
             signals |-> [name_match |-> FALSE, number_match |-> "None",
                          set_match |-> FALSE]]
       ELSE IF "card_number" \notin DOMAIN card_row
       THEN [row |-> NoRow, resolved |-> FALSE, raised |-> "KeyError",
             signals |-> [name_match |-> FALSE, number_match |-> "None",
                          set_match |-> FALSE]]
       ELSE LET name_match == card_name_match(title_normalized, card_row.card_name)
                number_match == card_number_match(raw_title, card_row.card_number)
                normalized_set == normalize_set_name(card_row.set_name)
                set_match == normalized_set # <<>>
                             /\ Contains(title_normalized, normalized_set)
            IN [row |-> [kept |-> TRUE,
                         listing_id |-> item_summary.itemId,
                         card_id |-> card_row.card_id,
                         title |-> raw_title,
                         title_normalized |-> title_normalized,
                         card_number_match |-> (number_match = "True"),
                         set_match |-> set_match,
                         title_match_confidence |->
                             compute_title_match_confidence(
                                 name_match, number_match, set_match)],
                resolved |-> TRUE, raised |-> "none",
                signals |-> [name_match |-> name_match,
                             number_match |-> number_match,
                             set_match |-> set_match]]

ItemBatches ==
    UNION { [1..n -> ListingTitles] : n \in 0..MaxListings }

ListInit ==
    /\ listPc = "run"
    /\ \E ts \in ItemBatches :
          listings = [i \in DOMAIN ts |-> [itemId |-> i, title |-> ts[i]]]
    /\ examined = 0
    /\ staging_rows = <<>>
    /\ rejected_count = 0
    /\ staged_listings = <<>>
    /\ listTrace = <<>>
    /\ card_master_row \in CardRows

ListIdle ==
    /\ listPc = "idle"
    /\ listings = <<>>
    /\ examined = 0
    /\ staging_rows = <<>>
    /\ rejected_count = 0
    /\ staged_listings = <<>>
    /\ listTrace = <<>>
    /\ card_master_row = CardRow

\* main, lines 276-287: one iteration of the loop over the items; an
\* exception of transform_listing ends the run with nothing written
TransformNextListing ==
    /\ listPc = "run"
    /\ examined < Len(listings)
    /\ LET item_summary == listings[examined + 1]
           out == transform_listing(item_summary, card_master_row)
       IN /\ staging_rows' = IF out.row.kept THEN Append(staging_rows, out.row)
                             ELSE staging_rows
          /\ rejected_count' = IF out.row.kept \/ out.raised # "none"
                               THEN rejected_count
                               ELSE rejected_count + 1
          /\ listPc' = IF out.raised # "none" THEN "crashed" ELSE listPc
          /\ listTrace' = Append(listTrace,
                             [title |-> item_summary.title,
                              kept |-> out.row.kept,
                              resolved |-> out.resolved,
                              raised |-> out.raised,
                              signals |-> out.signals,
                              row |-> out.row])
    /\ examined' = examined + 1
    /\ UNCHANGED <<listings, staged_listings, card_master_row>>

\* main, lines 289-303: nothing is written for no rows, else the rows are
\* written as part-000.parquet
WriteStagedListings ==
    /\ listPc = "run"
    /\ examined = Len(listings)
    /\ staged_listings' = IF staging_rows = <<>> THEN staged_listings
                          ELSE staging_rows
    /\ listPc' = "done"
    /\ UNCHANGED <<listings, examined, staging_rows, rejected_count, listTrace,
                   card_master_row>>

(***************************************************************************)
(* Surrogate key generator: deterministic_bigint_hash called on any        *)
(* strings                                                                 *)
(***************************************************************************)
MaxHashLen == 2

HashAlphabet == {"a", "|"}
HashInputs == UNION { [1..n -> HashAlphabet] : n \in 0..MaxHashLen }

HashInit == hashCalls = <<>>
HashIdle == hashCalls = <<>>

\* the record of a call deterministic_bigint_hash(card_id, variant_type)
HashCall(card_id, variant_type) ==
    [card_id |-> card_id,
     variant_type |-> variant_type,
     id |-> deterministic_bigint_hash(card_id, variant_type)]

\* a call deterministic_bigint_hash(card_id, variant_type)
CallHash ==
    /\ hashCalls = <<>>
    /\ \E card_id \in HashInputs, variant_type \in HashInputs :
          hashCalls' = <<HashCall(card_id, variant_type)>>

\* another call, in this run or a later one, to compare with the first
CallHashAgain ==
    /\ Len(hashCalls) = 1
    /\ \E card_id \in HashInputs, variant_type \in HashInputs :
          hashCalls' = Append(hashCalls, HashCall(card_id, variant_type))

(***************************************************************************)
(* Card master: processing/card_master_transform.py                        *)
(* Weekly leaderboard: processing/analytics/weekly_top_tcg_cards_transform *)
(***************************************************************************)
TOP_N == 2                   \* .head(200), scaled
MaxCardMasterRuns == 2
MaxVariantMasterRuns == 2
BOARD_PRICE_DATE == 1

\* the staged card records (tcg_cards): three cards, one of them staged twice
BoardStagedCards ==
    << StagedCard, [StagedCard EXCEPT !.card_id = 2],
       [StagedCard EXCEPT !.card_id = 3], StagedCard >>

\* transform_card_master, lines 54-81
transform_card_master(df) ==
    DropDuplicates([i \in DOMAIN df |-> transform_card_master_row(df[i])],
                   {"card_id"}, {})

\* the staged price rows (card_prices): card 1 has two price types
BoardVariantList ==
    << [card_id |-> 1, price_type |-> "normal"],
       [card_id |-> 1, price_type |-> "holofoil"],
       [card_id |-> 2, price_type |-> "normal"],
       [card_id |-> 3, price_type |-> "normal"] >>
BoardStagedPrices(market) ==
    [i \in DOMAIN BoardVariantList |->
        [card_id |-> BoardVariantList[i].card_id,
         price_type |-> BoardVariantList[i].price_type,
         market |-> market[i], tcg_update_date |-> 1,
         ingestion_date |-> RAW_INGESTION_DATE, nulls |-> {}]]

\* the partition price_date=BOARD_PRICE_DATE of tcg_price_history, built
\* once from the staged prices
BoardPriceDf(market) ==
    TransformPriceHistory(
        BoardStagedPrices(market),
        TransformVariantMaster(BoardStagedPrices(market)).rows,
        BOARD_PRICE_DATE).rows

\* merge(..., on="card_price_variant_id", how="inner",
\* validate="many_to_one"), lines 81-86: the right keys must be unique
ManyToOne(right) ==
    \A i, j \in DOMAIN right :
        right[i].card_price_variant_id = right[j].card_price_variant_id => i = j
MergeVariantIds(left, right) ==
    SelectSeq(left, LAMBDA l :
        \E j \in DOMAIN right :
            right[j].card_price_variant_id = l.card_price_variant_id)

RECURSIVE MergeCards(_, _, _)
\* merge(card_df, on="card_id", how): every left row with every card row of
\* its card_id; how="left" keeps a left row that has none
MergeCards(left, card_df, how) ==
    IF left = <<>> THEN <<>>
    ELSE LET l == Head(left)
             matches == SelectSeq(card_df, LAMBDA c : c.card_id = l.card_id)
         IN (IF matches = <<>> /\ how = "left"
             THEN << [l EXCEPT !.card_name = <<>>] >>
             ELSE [i \in DOMAIN matches |->
                      [l EXCEPT !.card_name = matches[i].card_name]])
            \o MergeCards(Tail(left), card_df, how)

\* groupby("card_id", as_index=False).agg(max_market_price=("market_price",
\* "max")), lines 97-99: one row per card_id, in card_id order
GroupByMax(df) ==
    LET ids == SortedSet({df[i].card_id : i \in DOMAIN df})
    IN [k \in DOMAIN ids |->
           [card_id |-> ids[k],
            max_market_price |->
                MaxOf({df[i].market_price : i \in {j \in DOMAIN df :
                                                     df[j].card_id = ids[k]}})]]

\* sort_values("max_market_price", ascending=False), line 106: the sort is
\* not stable, rows of equal price come in any order
SortValuesDescending(rows) ==
    { [i \in DOMAIN rows |-> rows[p[i]]] : p \in
        { q \in Permutations(DOMAIN rows) :
            \A i, j \in DOMAIN rows :
                i < j => rows[q[i]].max_market_price >= rows[q[j]].max_market_price } }

\* .head(200).reset_index(drop=True) and rank = index + 1, lines 107-111
HeadAndRank(sorted) ==
    [i \in 1..Min(TOP_N, Len(sorted)) |->
        [card_id |-> sorted[i].card_id,
         max_market_price |-> sorted[i].max_market_price,
         rank |-> i, price_date |-> BOARD_PRICE_DATE, card_name |-> <<>>]]

\* build_weekly_top_tcg_cards, lines 60-158: the frames that may be written,
\* or none when the first merge raises MergeError
BuildWeeklyTopTcgCards(price_df, variant_df, card_df) ==
    IF ~ManyToOne(variant_df) THEN {}
    ELSE LET df == MergeCards(
                      [i \in DOMAIN MergeVariantIds(price_df, variant_df) |->
                          [card_id |-> MergeVariantIds(price_df, variant_df)[i].card_id,
                           market_price |->
                               MergeVariantIds(price_df, variant_df)[i].market_price,
                           card_name |-> <<>>]],
                      card_df, "inner")
         IN { MergeCards(HeadAndRank(agg_df), card_df, "left") :
                agg_df \in SortValuesDescending(GroupByMax(df)) }

BoardInit ==
    /\ market_prices \in [DOMAIN BoardVariantList -> {10, 20}]
    /\ card_master = <<>>
    /\ variant_files = <<>>
    /\ leaderboard = [outcome |-> "none", rows |-> <<>>]

BoardIdle ==
    /\ market_prices = [i \in DOMAIN BoardVariantList |-> 10]
    /\ card_master = <<>>
    /\ variant_files = <<>>
    /\ leaderboard = [outcome |-> "none", rows |-> <<>>]

\* card_master_transform.main, lines 99-116: the frame is added to the
\* dataset as a new file (write_parquet, lines 87-92)
CardMasterRun ==
    /\ Len(card_master) < MaxCardMasterRuns
    /\ card_master' = WriteToDataset(card_master,
                                     transform_card_master(BoardStagedCards))
    /\ UNCHANGED <<market_prices, variant_files, leaderboard>>

\* card_price_variant_master_transform.main, lines 106-123
BoardVariantMasterRun ==
    /\ Len(variant_files) < MaxVariantMasterRuns
    /\ variant_files' =
          WriteToDataset(variant_files,
                         TransformVariantMaster(BoardStagedPrices(market_prices)).rows)
    /\ UNCHANGED <<market_prices, card_master, leaderboard>>

\* build_weekly_top_tcg_cards(price_date): pd.read_parquet of a directory
\* reads all its files; write_table replaces the file of the price_date
LeaderboardRun ==
    /\ card_master # <<>>
    /\ variant_files # <<>>
    /\ LET out == BuildWeeklyTopTcgCards(BoardPriceDf(market_prices),
                                         ReadDataset(variant_files),
                                         ReadDataset(card_master))
       IN IF out = {}
          THEN leaderboard' = [leaderboard EXCEPT !.outcome = "MergeError"]
          ELSE \E final_df \in out :
                  leaderboard' = [outcome |-> "written", rows |-> final_df]
    /\ UNCHANGED <<market_prices, card_master, variant_files>>

(***************************************************************************)
(* Market summary: analytics/duckdb/ebay_card_market_summary_transform.py  *)
(* over the view ebay_market_snapshot of analytics/duckdb/views.py         *)
(***************************************************************************)
MaxSnapshotListings == 2     \* rows of one snapshot partition

\* rows the snapshot transform writes: the columns the summary reads
\* (card_id, currency, is_graded; is_graded is never null, it is computed
\* as psa_grade is not None)
SnapshotRowUniverse ==
    { [card_id |-> 1, currency |-> "USD", is_graded |-> TRUE],
      [card_id |-> 1, currency |-> "USD", is_graded |-> FALSE],
      [card_id |-> 1, currency |-> "GBP", is_graded |-> FALSE],
      [card_id |-> 2, currency |-> "USD", is_graded |-> FALSE] }

SummaryInit ==
    /\ market_snapshot = [ing \in Dates |-> <<>>]
    /\ summary = <<>>

SummaryIdle ==
    /\ market_snapshot = [ing \in Dates |-> <<>>]
    /\ summary = <<>>

\* ebay_card_market_snapshot_transform.main, lines 120-133: the rows of a
\* run, when there are any, replace part-000.parquet of the run's
\* ingestion_date
SnapshotPartitionWritten ==
    /\ \E ing \in Dates, n \in 1..MaxSnapshotListings :
          \E analytics_df \in [1..n -> SnapshotRowUniverse] :
              market_snapshot' = WriteTable(market_snapshot, ing, analytics_df)
    /\ UNCHANGED summary

\* the CTE "aggregated", lines 16-28, over the rows of the view
\* ebay_market_snapshot: in card_id order, as a sequence
aggregated(view_rows) ==
    LET usd  == SelectSeq(view_rows, LAMBDA r : r.currency = "USD")
        ids  == SortedSet({usd[i].card_id : i \in DOMAIN usd})
        of(c) == SelectSeq(usd, LAMBDA r : r.card_id = c)
    IN [k \in DOMAIN ids |->
           [card_id |-> ids[k],
            listing_count |-> Len(of(ids[k])),
            graded_listing_count |->
                Len(SelectSeq(of(ids[k]), LAMBDA r : r.is_graded)),
            ungraded_listing_count |->
                Len(SelectSeq(of(ids[k]), LAMBDA r : ~r.is_graded))]]

\* build_ebay_card_market_summary, lines 4-41: the view reads every parquet
\* file under analytics/ebay_market_snapshot (views.py, lines 18-27); the
\* table is replaced
BuildSummary ==
    /\ summary' = aggregated(ReadDataset([i \in 1..MaxDays |-> market_snapshot[i]]))
    /\ UNCHANGED market_snapshot

(***************************************************************************)
(* Specifications                                                          *)
(***************************************************************************)
\* the credential cache alone, under any sequence of calls and clock advances
AuthNext ==
    \/ GetToken /\ UNCHANGED <<ingestVars, classVars, factVars, snapVars, catVars, listVars, textVars, hashVars, ctorVars, boardVars, summaryVars>>
    \/ Tick /\ UNCHANGED <<ingestVars, classVars, factVars, snapVars, catVars, listVars, textVars, hashVars, ctorVars, boardVars, summaryVars>>
InitAuth == AuthInit /\ IngestIdle /\ ClassIdle /\ FactIdle /\ SnapIdle /\ CatIdle /\ ListIdle /\ TextIdle /\ HashIdle /\ CtorIdle /\ BoardIdle /\ SummaryIdle
SpecAuth == InitAuth /\ [][AuthNext]_vars

\* one acquisition run
IngestNext ==
    \/ StartItem /\ UNCHANGED <<classVars, factVars, snapVars, catVars, listVars, textVars, hashVars, ctorVars, boardVars, summaryVars>>
    \/ FetchPageReturns /\ UNCHANGED <<classVars, factVars, snapVars, catVars, listVars, textVars, hashVars, ctorVars, boardVars, summaryVars>>
    \/ FetchPageRaises /\ UNCHANGED <<classVars, factVars, snapVars, catVars, listVars, textVars, hashVars, ctorVars, boardVars, summaryVars>>
    \/ ReturnAndWrite /\ UNCHANGED <<classVars, factVars, snapVars, catVars, listVars, textVars, hashVars, ctorVars, boardVars, summaryVars>>
    \/ Complete /\ UNCHANGED <<classVars, factVars, snapVars, catVars, listVars, textVars, hashVars, ctorVars, boardVars, summaryVars>>
    \/ (runPc # "complete" /\ Tick /\ UNCHANGED <<ingestVars, classVars, factVars, snapVars, catVars, listVars, textVars, hashVars, ctorVars, boardVars, summaryVars>>)
InitIngest == AuthInit /\ IngestInit /\ ClassIdle /\ FactIdle /\ SnapIdle /\ CatIdle /\ ListIdle /\ TextIdle /\ HashIdle /\ CtorIdle /\ BoardIdle /\ SummaryIdle

\* the classifier applied to any signals
AuthIdle ==
    /\ token = NoToken
    /\ now = 0
    /\ lastCall = NoCall
ClassNext == Classify /\ UNCHANGED <<authVars, ingestVars, factVars, snapVars, catVars, listVars, textVars, hashVars, ctorVars, boardVars, summaryVars>>
InitClass == ClassInit /\ AuthIdle /\ IngestIdle /\ FactIdle /\ SnapIdle /\ CatIdle /\ ListIdle /\ TextIdle /\ HashIdle /\ CtorIdle /\ BoardIdle /\ SummaryIdle
SpecClass == InitClass /\ [][ClassNext]_vars

\* the TCG build steps, run in any order, any number of times, on any day
FactNext ==
    \/ TcgStagingRun /\ UNCHANGED <<authVars, ingestVars, classVars, snapVars, catVars, listVars, textVars, hashVars, ctorVars, boardVars, summaryVars>>
    \/ VariantMasterRun /\ UNCHANGED <<authVars, ingestVars, classVars, snapVars, catVars, listVars, textVars, hashVars, ctorVars, boardVars, summaryVars>>
    \/ PriceHistoryRun /\ UNCHANGED <<authVars, ingestVars, classVars, snapVars, catVars, listVars, textVars, hashVars, ctorVars, boardVars, summaryVars>>
    \/ NextDay /\ UNCHANGED <<authVars, ingestVars, classVars, snapVars, catVars, listVars, textVars, hashVars, ctorVars, boardVars, summaryVars>>
InitFact == FactInit /\ AuthIdle /\ IngestIdle /\ ClassIdle /\ SnapIdle /\ CatIdle /\ ListIdle /\ TextIdle /\ HashIdle /\ CtorIdle /\ BoardIdle /\ SummaryIdle
SpecFact == InitFact /\ [][FactNext]_vars

\* eBay staging runs and market snapshot runs, in any order
SnapNext ==
    \/ EbayStagingRun /\ UNCHANGED <<authVars, ingestVars, classVars, factVars, catVars, listVars, textVars, hashVars, ctorVars, boardVars, summaryVars>>
    \/ SnapshotRun /\ UNCHANGED <<authVars, ingestVars, classVars, factVars, catVars, listVars, textVars, hashVars, ctorVars, boardVars, summaryVars>>
InitSnap == SnapInit /\ AuthIdle /\ IngestIdle /\ ClassIdle /\ FactIdle /\ CatIdle /\ ListIdle /\ TextIdle /\ HashIdle /\ CtorIdle /\ BoardIdle /\ SummaryIdle
SpecSnap == InitSnap /\ [][SnapNext]_vars
SpecIngest == InitIngest /\ [][IngestNext]_vars

\* the catalog ingestion run, then backfill runs
CatNext ==
    \/ IngestRequest /\ UNCHANGED <<authVars, ingestVars, classVars, factVars, snapVars, listVars, textVars, hashVars, ctorVars, boardVars, summaryVars>>
    \/ IngestWrite /\ UNCHANGED <<authVars, ingestVars, classVars, factVars, snapVars, listVars, textVars, hashVars, ctorVars, boardVars, summaryVars>>
    \/ BackfillStart /\ UNCHANGED <<authVars, ingestVars, classVars, factVars, snapVars, listVars, textVars, hashVars, ctorVars, boardVars, summaryVars>>
    \/ BackfillRequest /\ UNCHANGED <<authVars, ingestVars, classVars, factVars, snapVars, listVars, textVars, hashVars, ctorVars, boardVars, summaryVars>>
    \/ BackfillWrite /\ UNCHANGED <<authVars, ingestVars, classVars, factVars, snapVars, listVars, textVars, hashVars, ctorVars, boardVars, summaryVars>>
InitCat == CatInit /\ AuthIdle /\ IngestIdle /\ ClassIdle /\ FactIdle /\ SnapIdle /\ ListIdle /\ TextIdle /\ HashIdle /\ CtorIdle /\ BoardIdle /\ SummaryIdle
SpecCat == InitCat /\ [][CatNext]_vars

\* one eBay staging run over the listings of a card
ListNext ==
    \/ TransformNextListing /\ UNCHANGED <<authVars, ingestVars, classVars, factVars, snapVars, catVars, textVars, hashVars, ctorVars, boardVars, summaryVars>>
    \/ WriteStagedListings /\ UNCHANGED <<authVars, ingestVars, classVars, factVars, snapVars, catVars, textVars, hashVars, ctorVars, boardVars, summaryVars>>
InitList == ListInit /\ AuthIdle /\ IngestIdle /\ ClassIdle /\ FactIdle /\ SnapIdle /\ CatIdle /\ TextIdle /\ HashIdle /\ CtorIdle /\ BoardIdle /\ SummaryIdle
SpecList == InitList /\ [][ListNext]_vars

\* one normalizer applied to any text
TextNext ==
    \/ ApplyNormalizeTitle /\ UNCHANGED <<authVars, ingestVars, classVars, factVars, snapVars, catVars, listVars, hashVars, ctorVars, boardVars, summaryVars>>
    \/ ApplyNormalizeCardName /\ UNCHANGED <<authVars, ingestVars, classVars, factVars, snapVars, catVars, listVars, hashVars, ctorVars, boardVars, summaryVars>>
InitText == TextInit /\ AuthIdle /\ IngestIdle /\ ClassIdle /\ FactIdle /\ SnapIdle /\ CatIdle /\ ListIdle /\ HashIdle /\ CtorIdle /\ BoardIdle /\ SummaryIdle
SpecText == InitText /\ [][TextNext]_vars

\* the surrogate key generator called on any strings
HashNext ==
    \/ CallHash /\ UNCHANGED <<authVars, ingestVars, classVars, factVars, snapVars, catVars, listVars, textVars, ctorVars, boardVars, summaryVars>>
    \/ CallHashAgain /\ UNCHANGED <<authVars, ingestVars, classVars, factVars, snapVars, catVars, listVars, textVars, ctorVars, boardVars, summaryVars>>
InitHash == HashInit /\ AuthIdle /\ IngestIdle /\ ClassIdle /\ FactIdle /\ SnapIdle /\ CatIdle /\ ListIdle /\ TextIdle /\ CtorIdle /\ BoardIdle /\ SummaryIdle
SpecHash == InitHash /\ [][HashNext]_vars

\* the construction of a credential cache and its first exchange
CtorNext ==
    \/ Construct /\ UNCHANGED <<authVars, ingestVars, classVars, factVars, snapVars, catVars, listVars, textVars, hashVars, boardVars, summaryVars>>
    \/ FirstExchange /\ UNCHANGED <<authVars, ingestVars, classVars, factVars, snapVars, catVars, listVars, textVars, hashVars, boardVars, summaryVars>>
InitCtor == CtorInit /\ AuthIdle /\ IngestIdle /\ ClassIdle /\ FactIdle /\ SnapIdle /\ CatIdle /\ ListIdle /\ TextIdle /\ HashIdle /\ BoardIdle /\ SummaryIdle
SpecCtor == InitCtor /\ [][CtorNext]_vars

\* card-master, variant-master and leaderboard builds, in any order
BoardNext ==
    \/ CardMasterRun /\ UNCHANGED <<authVars, ingestVars, classVars, factVars, snapVars, catVars, listVars, textVars, hashVars, ctorVars, summaryVars>>
    \/ BoardVariantMasterRun /\ UNCHANGED <<authVars, ingestVars, classVars, factVars, snapVars, catVars, listVars, textVars, hashVars, ctorVars, summaryVars>>
    \/ LeaderboardRun /\ UNCHANGED <<authVars, ingestVars, classVars, factVars, snapVars, catVars, listVars, textVars, hashVars, ctorVars, summaryVars>>
InitBoard == BoardInit /\ AuthIdle /\ IngestIdle /\ ClassIdle /\ FactIdle /\ SnapIdle /\ CatIdle /\ ListIdle /\ TextIdle /\ HashIdle /\ CtorIdle /\ SummaryIdle
SpecBoard == InitBoard /\ [][BoardNext]_vars

\* snapshot runs and summary builds, in any order
SummaryNext ==
    \/ SnapshotPartitionWritten /\ UNCHANGED <<authVars, ingestVars, classVars, factVars, snapVars, catVars, listVars, textVars, hashVars, ctorVars, boardVars>>
    \/ BuildSummary /\ UNCHANGED <<authVars, ingestVars, classVars, factVars, snapVars, catVars, listVars, textVars, hashVars, ctorVars, boardVars>>
InitSummary == SummaryInit /\ AuthIdle /\ IngestIdle /\ ClassIdle /\ FactIdle /\ SnapIdle /\ CatIdle /\ ListIdle /\ TextIdle /\ HashIdle /\ CtorIdle /\ BoardIdle
SpecSummary == InitSummary /\ [][SummaryNext]_vars

(***************************************************************************)
(* Claims about the acquisition run and the credential cache               *)
(***************************************************************************)
Last(q) == q[Len(q)]

RECURSIVE ItemsBefore(_, _)
\* the items the payloads of the first i - 1 calls of the log carried
ItemsBefore(log, i) ==
    IF i <= 1 THEN 0 ELSE ItemsBefore(log, i - 1) + log[i - 1].n

\* the number of search calls the log holds for the page at offset off
Attempts(log, off) == Cardinality({i \in DOMAIN log : log[i].offset = off})

\* the cards whose processing has ended
Finished == IF runPc \in {"page", "return"} THEN cardIdx - 1 ELSE cardIdx

LastRaised == callLog # <<>> /\ Raises(Last(callLog))

\* C3: when the fetch of a card fails, on whichever page, the card is left
\* (main is back at its loop, or done when it was the last card), no raw
\* file exists for it, and it is counted as failed: the files written are
\* exactly the passed cards and passed + failed is the number of cards
\* iterated, at the end the number of all cards.
C3_PartialFailure ==
    /\ LastRaised =>
          /\ runPc = "loop" \/ (runPc = "complete" /\ cardIdx = NumCards)
          /\ ~raw[cardIdx].written
          /\ failed >= 1
    /\ passed = Cardinality({c \in 1..NumCards : raw[c].written})
    /\ passed + failed = Finished
    /\ runPc = "complete" => passed + failed = NumCards

\* the first card failed on its second page, after a first page of items
\* was accumulated; nothing was written and the next card is up
C3_Witness ==
    /\ cardIdx = 1
    /\ cardIdx < NumCards
    /\ runPc = "loop"
    /\ LastRaised
    /\ Len(callLog) = 2
    /\ callLog[1].n > 0
    /\ failed = 1
    /\ ~raw[1].written

\* C4: a page request that throws a transient error (429, 504, 404) is
\* retried the configured number of times before the card is recorded as
\* failed: when the card is recorded as failed on such an error, the page
\* was requested retry_attempts times.
retry_attempts == 5
TransientStatuses == {429, 504, 404}
C4_RetriedBeforeFailed ==
    (LastRaised /\ Last(callLog).kind = "status"
        /\ Last(callLog).status \in TransientStatuses)
    => Attempts(callLog, Last(callLog).offset) >= retry_attempts

\* the four stop conditions, on the state of the fetch of the current card
AccumulatedEnough == Len(all_items) >= cfg.max_results
LastPageEmpty ==
    callLog # <<>> /\ Last(callLog).kind = "ok" /\ Last(callLog).n = 0
LastPageShort ==
    callLog # <<>> /\ Last(callLog).kind = "ok"
                   /\ Last(callLog).n < Last(callLog).limit
MaxPagesReached == pages >= cfg.max_pages
LastPayloadNotObject == callLog # <<>> /\ Last(callLog).kind = "nondict"
FourStopConditions ==
    AccumulatedEnough \/ LastPageEmpty \/ LastPageShort \/ MaxPagesReached

\* C5 as stated: the fetch has stopped requesting pages (it is about to
\* return) exactly when one of the four conditions holds.
C5_StopsExactlyOnFour ==
    /\ runPc = "return" => FourStopConditions
    /\ runPc = "page" => ~FourStopConditions

\* C5 as amended: the fetch stops requesting pages and returns exactly when
\* one of the four conditions holds or the last payload is not a JSON
\* object; no request follows a short or an empty page.
C5_StopsExactly ==
    /\ runPc = "return" => (FourStopConditions \/ LastPayloadNotObject)
    /\ runPc = "page" => ~(FourStopConditions \/ LastPayloadNotObject)

\* the fetch returns after a full first page because the payload of the
\* second request was not a JSON object, with none of the four conditions
C5_Witness ==
    /\ runPc = "return"
    /\ Len(callLog) = 2
    /\ Len(all_items) > 0
    /\ LastPayloadNotObject
    /\ ~FourStopConditions

\* C6: every page request asks for min(page_size, max_results - accumulated)
\* items, which is at least 1; at most max_pages requests are made for a
\* card, and while the server has never sent more items than the limit,
\* neither the accumulated list nor a written file holds more than
\* max_results items.
C6_LimitAndCaps ==
    /\ \A i \in DOMAIN callLog :
          /\ callLog[i].limit =
                Min(cfg.page_size, cfg.max_results - ItemsBefore(callLog, i))
          /\ callLog[i].limit >= 1
    /\ Len(callLog) <= cfg.max_pages
    /\ ~overReturned =>
          /\ Len(all_items) <= cfg.max_results
          /\ \A c \in 1..NumCards : Len(raw[c].items) <= cfg.max_results

\* the last request was capped below page_size by the items already
\* accumulated, and the result holds exactly max_results items
C6_Witness ==
    /\ runPc = "return"
    /\ ~overReturned
    /\ Len(callLog) >= 2
    /\ Last(callLog).limit < cfg.page_size
    /\ Len(all_items) = cfg.max_results

\* C7: an authentication failure is fatal for the run: once EbayAuthError
\* was raised for a card, no later card is attempted and the run does not
\* end as a completed run.
C7_AuthFailureFatal ==
    authFailedAt # 0 => (cardIdx = authFailedAt /\ runPc # "complete")

\* C8: a get_access_token call answers from the cache, without a credential
\* exchange, exactly when a token is cached whose expiry is more than 60
\* seconds after the time of the call; the cache is then left as it was;
\* otherwise one exchange is made, and when it succeeds the cached token
\* expires at the time of issue plus expires_in.
C8_CredentialCache ==
    lastCall.made =>
        /\ ~lastCall.exchanged <=> (lastCall.had /\ lastCall.exp > lastCall.at + 60)
        /\ ~lastCall.exchanged =>
              token = [present |-> TRUE, expires_at |-> lastCall.exp]
        /\ (lastCall.exchanged /\ lastCall.ok) =>
              token = [present |-> TRUE,
                       expires_at |-> lastCall.issued + lastCall.expires_in]

\* a call made exactly 60 seconds before the cached token's expiry, which
\* exchanged the credentials again
C8_Witness ==
    /\ lastCall.made
    /\ lastCall.had
    /\ lastCall.exp = lastCall.at + 60
    /\ lastCall.exchanged
    /\ lastCall.ok

(***************************************************************************)
(* Claims about the classifier                                             *)
(***************************************************************************)
\* the precedence table of the confidence policy, row by row
PrecedenceTable ==
    { <<FALSE, "True",  FALSE, "reject">>, <<FALSE, "True",  TRUE, "reject">>,
      <<FALSE, "False", FALSE, "reject">>, <<FALSE, "False", TRUE, "reject">>,
      <<FALSE, "None",  FALSE, "reject">>, <<FALSE, "None",  TRUE, "reject">>,
      <<TRUE,  "False", FALSE, "reject">>, <<TRUE,  "False", TRUE, "reject">>,
      <<TRUE,  "True",  FALSE, "high">>,   <<TRUE,  "True",  TRUE, "high">>,
      <<TRUE,  "None",  TRUE,  "medium">>, <<TRUE,  "None",  FALSE, "low">> }

\* C1: for each of the 12 inputs (name_match, number_match, set_match) the
\* classifier returns a tier, the one of the precedence table: reject when
\* the name does not match, else reject when the number differs, else high
\* when the number matches whatever set_match is, else medium with a set
\* match and low without.
C1_PrecedenceTable ==
    \A i \in DOMAIN classified :
        LET c == classified[i] IN
        /\ c.tier \in Tiers
        /\ <<c.name_match, c.number_match, c.set_match, c.tier>> \in PrecedenceTable

\* a number match without a name match was classified, and a number match
\* with a name match but no set match
C1_Witness ==
    /\ Len(classified) = 2
    /\ ~classified[1].name_match /\ classified[1].number_match = "True"
    /\ classified[2].name_match /\ classified[2].number_match = "True"
    /\ ~classified[2].set_match /\ classified[2].tier = "high"

(***************************************************************************)
(* Claims about the fact build                                             *)
(***************************************************************************)
\* C2: however often the price-history build has run, the persisted
\* partition of each price_date holds each (card_id, variant_id, price_date)
\* key at most once.
C2_NoDuplicateKeys ==
    \A d \in Dates :
        LET rows == ReadDataset(price_history[d]) IN
        \A i, j \in DOMAIN rows : PriceKey(rows[i]) = PriceKey(rows[j]) => i = j

\* what the schema contract forbids in a frame
MissingColumns(df, schema) == schema.columns \ df.columns # {}
ExtraColumns(df, schema) == df.columns \ schema.columns # {}
NullInNonNullable(df, schema) == \E c \in schema.nonnull : HasNull(df, c)

\* C9: a build step whose frame has a missing column, an extra column or a
\* null in a column declared non-nullable ends with a validation error and
\* persists nothing.
C9_InvalidNeverPersisted ==
    (lastRun.step # "none"
       /\ (MissingColumns(lastRun.df, lastRun.schema)
           \/ ExtraColumns(lastRun.df, lastRun.schema)
           \/ NullInNonNullable(lastRun.df, lastRun.schema)))
    => (lastRun.outcome = "ValueError" /\ ~lastRun.persisted)

\* C10: the fact datasets are append-only: no step removes a row from a
\* partition that an earlier run persisted, also when a run targets a
\* partition that exists already.
C10_AppendOnly ==
    [][\A d \in Dates : \A i \in DOMAIN snapshot[d] :
          \E j \in DOMAIN snapshot'[d] : snapshot'[d][j] = snapshot[d][i]]_vars

\* C11: when the batch of one price-history build holds a key (card_id,
\* card_price_variant_id, price_date) more than once, the built frame holds
\* exactly one row of that key, and it is the last row of that key in the
\* batch.
C11_LastWriteWins ==
    [][(factRuns' = factRuns + 1 /\ lastRun'.step = "price_history") =>
         LET batch == MergeVariant(ReadDataset(staging_prices),
                                   ReadDataset(variant_master), today)
             kept == lastRun'.df.rows
         IN \A i \in DOMAIN batch :
              /\ Cardinality({j \in DOMAIN kept :
                                 PriceKey(kept[j]) = PriceKey(batch[i])}) = 1
              /\ (\A j \in DOMAIN batch :
                     j > i => PriceKey(batch[j]) # PriceKey(batch[i]))
                 => \E j \in DOMAIN kept : kept[j] = batch[i]]_vars

(***************************************************************************)
(* Claims about the catalog ingestion and the backfill                     *)
(***************************************************************************)
RetryFailure(e) == e.outcome \in {"retriable", "neterr"}
IngestionPhase == catPc \in {"ingest", "ingest_write", "ingested"}
TimesIn(q, x) == Cardinality({i \in DOMAIN q : q[i] = x})

\* C12: in catalog ingestion a page whose requests fail with transient
\* errors is requested at most 5 times, each wait longer than the one
\* before; after the 5th failure the page is in the list of failed pages,
\* the loop is at the next page, and the ledger the run writes lists it.
C12_RetryBudget ==
    /\ Len(pageLog) <= 5
    /\ \A i \in DOMAIN pageLog :
          i < Len(pageLog) =>
             /\ RetryFailure(pageLog[i])
             /\ pageLog[i].wait > 0
             /\ RetryFailure(pageLog[i + 1]) => pageLog[i].wait < pageLog[i + 1].wait
    /\ (IngestionPhase /\ Len(pageLog) = 5 /\ RetryFailure(Last(pageLog))) =>
          /\ TimesIn(failed_pages, pageLog[1].page) = 1
          /\ page = pageLog[1].page + 1
          /\ attempts = 0
          /\ catPc = "ingest"
    /\ catPc = "ingested" =>
          \A p \in Range(failed_pages) :
             ledger.present /\ p \in Range(ledger.failed_pages)

C12_Witness ==
    /\ catPc = "ingest"
    /\ Len(pageLog) = 5
    /\ \A i \in DOMAIN pageLog : RetryFailure(pageLog[i])
    /\ pageLog[5].wait = 25
    /\ failed_pages = <<1>>
    /\ page = 2

\* C13 as stated: a page that got a permanent error was requested exactly
\* once in the run, is recorded once, and the loop went on.
C13_PermanentOneRequest ==
    (pageLog # <<>> /\ Last(pageLog).outcome = "permanent") =>
        /\ Len(pageLog) = 1
        /\ TimesIn(IF IngestionPhase THEN failed_pages ELSE updated_failed_pages,
                   Last(pageLog).page) = 1

\* C13, amended: the request that got a permanent error is the last request
\* made for its page in the run (the requests before it, if any, failed with
\* transient errors); the page is recorded once in the run's list of failed
\* pages and the loop is at the next page.
C13_PermanentNotRetried ==
    (pageLog # <<>> /\ Last(pageLog).outcome = "permanent") =>
        LET p == Last(pageLog).page IN
        /\ \A i \in DOMAIN pageLog : i < Len(pageLog) => RetryFailure(pageLog[i])
        /\ attempts = 0
        /\ IF IngestionPhase
           THEN /\ TimesIn(failed_pages, p) = 1
                /\ page = p + 1
                /\ catPc = "ingest"
           ELSE /\ TimesIn(updated_failed_pages, p) = 1
                /\ catPc \in {"backfill", "backfill_write", "backfilled"}
                /\ catPc = "backfill" => page # p

C13_Witness ==
    /\ catPc = "ingest"
    /\ Len(pageLog) = 2
    /\ pageLog[1].outcome = "retriable"
    /\ pageLog[2].outcome = "permanent"
    /\ failed_pages = <<1>>

\* C14: a finished backfill run requested exactly the pages of the ledger it
\* read, and left the ledger cleared when every page was recovered, else
\* listing exactly the pages that failed again.
C14_LedgerRewritten ==
    catPc = "backfilled" =>
        /\ runPages = Range(failed_pages)
        /\ IF updated_failed_pages = <<>>
           THEN ~ledger.present
           ELSE /\ ledger.present
                /\ ledger.failed_pages = SortedSet(Range(updated_failed_pages))

(***************************************************************************)
(* Claims about the eBay staging run                                       *)
(***************************************************************************)
\* C15: every listing examined whose normalized title satisfies the
\* non-card filter was dropped before resolution ran, has no output row and
\* is counted in the rejection tally; accepted rows + tally = examined.
C15_NonCardDropped ==
    /\ \A i \in DOMAIN listTrace :
          is_non_card_listing(normalize_title(listTrace[i].title)) =>
             /\ ~listTrace[i].resolved
             /\ ~listTrace[i].kept
             /\ \A j \in DOMAIN staging_rows :
                   staging_rows[j].listing_id # i
    /\ rejected_count =
          Cardinality({i \in DOMAIN listTrace :
                          ~listTrace[i].kept /\ listTrace[i].raised = "none"})
    /\ listPc # "crashed" => Len(staging_rows) + rejected_count = examined

\* the tier and signal fields of a staged row
PersistedSignals(row) ==
    [title_match_confidence |-> row.title_match_confidence,
     card_number_match |-> row.card_number_match,
     set_match |-> row.set_match]

\* C18: the staged rows of two listings whose signal triples (name_match,
\* number_match, set_match) differ have different tier and signal fields.
C18_SignalsRecoverable ==
    \A i, j \in DOMAIN listTrace :
        (listTrace[i].kept /\ listTrace[j].kept
           /\ listTrace[i].signals # listTrace[j].signals)
        => PersistedSignals(listTrace[i].row) # PersistedSignals(listTrace[j].row)

(***************************************************************************)
(* Claims about the normalizers                                            *)
(***************************************************************************)
\* C16: normalize_title is idempotent: applied to its own result it returns
\* that result.
C16_NormalizeTitleIdempotent ==
    normalized.fn = "normalize_title" =>
        normalize_title(normalized.out) = normalized.out

C16_Witness ==
    /\ normalized.fn = "normalize_title"
    /\ text = <<"E", "-", " ", "x">>
    /\ normalized.out = <<"e", " ", "x">>

\* C17: normalize_card_name is idempotent: applied to its own result it
\* returns that result, also for names with the delta symbol next to
\* descriptor letters.
C17_NormalizeCardNameIdempotent ==
    normalized.fn = "normalize_card_name" =>
        normalize_card_name(normalized.out) = normalized.out

C20_DistinctPairsDistinctIds ==
    \A i, j \in DOMAIN hashCalls :
        (hashCalls[i].card_id # hashCalls[j].card_id
         \/ hashCalls[i].variant_type # hashCalls[j].variant_type)
        => hashCalls[i].id # hashCalls[j].id

RECURSIVE ConcatPages(_)
\* the items of the logged requests, in request order
ConcatPages(log) ==
    IF log = <<>> THEN <<>>
    ELSE ConcatPages(SubSeq(log, 1, Len(log) - 1))
         \o PageItems(log[Len(log)].offset, log[Len(log)].n)

\* C26: the first request of a query has offset 0, every later request's
\* offset is the number of items accumulated from the requests before it and
\* is larger than the offset before, and the accumulated items are the pages
\* joined in request order.
C26_OffsetsInOrder ==
    /\ \A i \in DOMAIN callLog :
          /\ callLog[i].offset = Len(ConcatPages(SubSeq(callLog, 1, i - 1)))
          /\ (i = 1 => callLog[i].offset = 0)
          /\ (i > 1 => callLog[i].offset > callLog[i - 1].offset)
    /\ all_items = ConcatPages(callLog)

\* two pages were fetched, the first one longer than asked for
C26_Witness ==
    /\ Len(callLog) = 2
    /\ callLog[1].limit = 1
    /\ callLog[1].n = 2
    /\ callLog[2].offset = 2
    /\ callLog[2].n = 1
    /\ all_items = <<1, 2, 3>>

\* the number of the last logged request that returned items, 0 for none
LastPageWithItems(log) ==
    LET S == { i \in DOMAIN log : log[i].kind = "ok" /\ log[i].n > 0 }
    IN IF S = {} THEN 0 ELSE CHOOSE i \in S : \A j \in S : j <= i

\* C27 as stated: when fetch_all returns, the envelope is that of the last
\* page fetched.
C27_EnvelopeOfLastPage ==
    (runPc = "return" /\ pages > 0) => merged_payload = pages

\* C27: when fetch_all returns, the envelope is that of the last page that
\* held items (the empty object when no page did), and the file written for
\* the card holds it with the accumulated items.
C27_EnvelopeOfLastPageWithItems ==
    /\ runPc = "return" => merged_payload = LastPageWithItems(callLog)
    /\ (runPc = "loop" /\ cardIdx > 0 /\ raw[cardIdx].written) =>
          /\ raw[cardIdx].envelope = LastPageWithItems(callLog)
          /\ raw[cardIdx].items = ConcatPages(callLog)

\* pagination ended on an empty second page: the file has the envelope of
\* page 1
C27_Witness ==
    /\ runPc = "loop"
    /\ cardIdx > 0
    /\ raw[cardIdx].written
    /\ Len(callLog) = 2
    /\ callLog[1].n = 1
    /\ callLog[2].kind = "ok"
    /\ callLog[2].n = 0
    /\ raw[cardIdx].envelope = 1
    /\ raw[cardIdx].items = <<1>>

\* C29: during catalog ingestion every page before the current one is
\* either a page whose cards were appended or a page recorded as failed, and
\* not both; no page is appended or recorded twice, and no page at or after
\* the current one is in either list.
C29_PageAccounting ==
    IngestionPhase =>
        /\ \A p \in 1..(page - 1) :
              /\ TimesIn(all_cards, p) + TimesIn(failed_pages, p) = 1
              /\ p \in runPages
        /\ \A p \in Range(all_cards) \cup Range(failed_pages) : p < page

\* page 1 was given up after a retry, page 2 was appended at its second
\* attempt
C29_Witness ==
    /\ catPc = "ingest"
    /\ page = 3
    /\ failed_pages = <<1>>
    /\ all_cards = <<2>>
    /\ Len(pageLog) = 2
    /\ pageLog[1].outcome = "neterr"
    /\ pageLog[2].outcome = "cards"

\* C30: the ingestion loop is left exactly by a request that succeeds with
\* no cards; a page given up (permanent error, or 5 failed attempts) leaves
\* the loop running at the next page, so the output is written only after
\* such a request and never while every request fails.
C30_EndsOnlyOnEmptyPage ==
    IngestionPhase =>
        /\ catPc = "ingest" <=>
              ~(pageLog # <<>> /\ Last(pageLog).outcome = "empty")
        /\ (pageLog # <<>>
            /\ (Last(pageLog).outcome = "permanent"
                \/ (Len(pageLog) = RETRY_BUDGET /\ RetryFailure(Last(pageLog))))) =>
              /\ catPc = "ingest"
              /\ page = Last(pageLog).page + 1
        /\ (catPc = "ingested" /\ failed_pages # <<>>) => ledger.present

\* page 1 was given up, page 2 was appended, and the empty page 3 ended the
\* loop
C30_Witness ==
    /\ catPc = "ingest_write"
    /\ failed_pages = <<1>>
    /\ all_cards = <<2>>
    /\ Last(pageLog).outcome = "empty"

\* a credential that is neither passed nor configured
Absent(arg, env) == ~Truthy(arg) /\ (~env.given \/ Strip(env.value) = <<>>)

\* C25: the construction of the credential cache ends in EbayAuthError when
\* a client credential is absent (not passed and not configured), its first
\* exchange ends in EbayAuthError with the status when the status is not
\* 200, and neither ends in another kind of error.
C25_OnlyAuthError ==
    /\ ctorResult.outcome \in {"none", "constructed", "EbayAuthError"}
    /\ (ctorResult.outcome # "none"
        /\ (Absent(ctorArgs.client_id, ctorArgs.env_client_id)
            \/ Absent(ctorArgs.client_secret, ctorArgs.env_client_secret))) =>
          ctorResult.outcome = "EbayAuthError"
    /\ ctorResult.exchange \in {"none", "token", "EbayAuthError"}
    /\ ctorResult.exchange = "EbayAuthError" <=>
          (ctorResult.status # 0 /\ ctorResult.status # 200)

\* the catalog's card_number/printed_total string of a card_master row
CatalogNumber(row) ==
    IF "card_number" \in DOMAIN row THEN row.card_number
    ELSE row.number \o <<"/">> \o row.set_printedTotal

\* C28: for every listing that passes the keyword filter the number signal
\* is computed: absent when the raw title holds no N/T pattern, else true
\* exactly when the pattern equals the catalog's card_number/printed_total;
\* a listing whose name and number match is staged with tier high.
C28_NumberSignal ==
    \A i \in DOMAIN listTrace :
        LET e == listTrace[i]
            title_number == extract_card_number(e.title)
        IN (\A kw \in INLINE_NON_CARD_KEYWORDS :
               ~Contains(normalize_title(e.title), kw)) =>
             /\ e.raised = "none"
             /\ e.resolved
             /\ e.signals.number_match =
                   (IF title_number = NoNumber THEN "None"
                    ELSE IF title_number = CatalogNumber(card_master_row)
                         THEN "True" ELSE "False")
             /\ (e.signals.name_match /\ e.signals.number_match = "True") =>
                   (e.kept /\ e.row.title_match_confidence = "high")

\* C23: every row of every market snapshot partition has tier high or
\* medium, and is the row of a listing whose name matches, whose title
\* number does not differ from the catalog number, and that has a number
\* match or a set match.
C23_SnapshotHighOrMedium ==
    \A ing \in Dates : \A i \in DOMAIN snapshot[ing] :
        LET r == snapshot[ing][i]
            s == ListingSignals[r.listing_id]
        IN /\ r.title_match_confidence \in {"high", "medium"}
           /\ s.name_match
           /\ s.number_match # "False"
           /\ s.number_match = "True" \/ s.set_match

\* a snapshot was built from a staging partition that holds a medium and a
\* reject listing
C23_Witness ==
    /\ \E pd \in Dates :
          /\ Len(ebay_staging[pd][1]) = 2
          /\ ebay_staging[pd][1][1].listing_id = 5
          /\ ebay_staging[pd][1][2].listing_id = 2
    /\ Len(snapshot[1]) = 1
    /\ snapshot[1][1].listing_id = 2
    /\ snapshot[1][1].title_match_confidence = "medium"

(***************************************************************************)
(* Claims on the card master and the weekly leaderboard                    *)
(***************************************************************************)
\* C22: after any number of card-master builds over the staged cards, the
\* persisted card master (all files of the dataset, as the leaderboard and
\* the acquisition stage read it) holds each card_id at most once.
C22_CardIdUnique ==
    LET card_df == ReadDataset(card_master)
    IN \A i, j \in DOMAIN card_df :
          card_df[i].card_id = card_df[j].card_id => i = j

\* the card_ids of the price_date that have a price row, a variant and a card
QualifyingCards ==
    { r.card_id : r \in Range(BoardPriceDf(market_prices)) }
        \cap { c.card_id : c \in Range(ReadDataset(card_master)) }
MaxMarketPrice(card_id) ==
    MaxOf({ r.market_price : r \in { x \in Range(BoardPriceDf(market_prices)) :
                                       x.card_id = card_id } })

\* C21: when the price_date has at least TOP_N qualifying cards, the written
\* leaderboard has exactly TOP_N rows, each card_id at most once, the ranks
\* 1..TOP_N in order without repeats, max_market_price non-increasing with
\* the rank, and each max_market_price the maximum over the card's variants.
C21_LeaderboardInvariant ==
    (leaderboard.outcome = "written" /\ Cardinality(QualifyingCards) >= TOP_N) =>
        LET rows == leaderboard.rows
        IN /\ Len(rows) = TOP_N
           /\ \A i, j \in DOMAIN rows : rows[i].card_id = rows[j].card_id => i = j
           /\ \A i \in DOMAIN rows : rows[i].rank = i
           /\ \A i, j \in DOMAIN rows :
                 i < j => rows[i].max_market_price >= rows[j].max_market_price
           /\ \A i \in DOMAIN rows :
                 rows[i].max_market_price = MaxMarketPrice(rows[i].card_id)

\* the same, for a leaderboard built while the card master has one file
C21_LeaderboardOverOneCardMasterFile ==
    Len(card_master) = 1 => C21_LeaderboardInvariant

(***************************************************************************)
(* Claim on the market summary                                             *)
(***************************************************************************)
\* the latest snapshot partition, and a card's USD rows in it
LatestSnapshot(snap) ==
    IF \A ing \in Dates : snap[ing] = <<>> THEN <<>>
    ELSE snap[MaxOf({ing \in Dates : snap[ing] # <<>>})]
UsdRowsOf(rows, card_id) ==
    Len(SelectSeq(rows, LAMBDA r : r.card_id = card_id /\ r.currency = "USD"))

\* C24: a summary build aggregates only the USD rows of the latest snapshot
\* partition: each summary row's listing_count is the number of the card's
\* USD rows in that partition, and graded + ungraded = listing_count.
C24_SummaryOfLatestSnapshot ==
    [][summary' # summary =>
          \A i \in DOMAIN summary' :
              /\ summary'[i].listing_count =
                    UsdRowsOf(LatestSnapshot(market_snapshot), summary'[i].card_id)
              /\ summary'[i].graded_listing_count
                     + summary'[i].ungraded_listing_count
                   = summary'[i].listing_count]_vars

\* the part of C24 that does not depend on the partitions read:
\* graded + ungraded = listing_count in every summary row
C24_GradedPlusUngraded ==
    \A i \in DOMAIN summary :
        summary[i].graded_listing_count + summary[i].ungraded_listing_count
            = summary[i].listing_count

=============================================================================
